---- MODULE Spec2Model ----
(***************************************************************************)
(* Model of the MXLIFF core of script_app: XMLParser.parse_xml and         *)
(* XMLParser.update_xml_content (src/xml_parser.py) and the handlers of    *)
(* MXLIFFParser (src/main_window.py) that own the loaded records.          *)
(*                                                                         *)
(* Text is modelled as a sequence of lexemes.  An XML text is a sequence   *)
(* of tokens [t, v, a]: t is the kind of the tag or element, v its inner   *)
(* text or id, a the key="..." attribute of a trans-unit open tag.  Inner  *)
(* texts, keys and ids are sequences of one-lexeme strings, so that        *)
(* str.strip, the `in` operator and str.replace are computed, not assumed. *)
(***************************************************************************)
EXTENDS Integers, Sequences, FiniteSets, TLC

VARIABLES
    xml,        \* original_xml_content: the text handed to the parser / patcher; in the
                \* specifications of single functions, the argument of the call
    data,       \* processed_data: the list of display entries (headers and items)
    recs,       \* the list returned by the last XMLParser.parse_xml call
    out,        \* outcome of the last XMLParser.update_xml_content call; in the
                \* specifications of single functions, the result of the call
    intLimit,   \* whether the interpreter limits int(str) to 4300 digits
    pc          \* which call has been made

vars == <<xml, data, recs, out, intLimit, pc>>

----------------------------------------------------------------------------
(* Bounds of the explored inputs *)

MaxUnits == 2

----------------------------------------------------------------------------
(* Python string primitives over lexeme sequences *)

RECURSIVE LStrip(_)
LStrip(s) ==
    IF s # <<>> /\ Head(s) = " " THEN LStrip(Tail(s)) ELSE s

RECURSIVE RStrip(_)
RStrip(s) ==
    IF s # <<>> /\ s[Len(s)] = " " THEN RStrip(SubSeq(s, 1, Len(s) - 1)) ELSE s

Strip(s) == RStrip(LStrip(s))

\* Python `a in b` on strings
Contains(a, b) ==
    \E i \in 0..(Len(b) - Len(a)) : SubSeq(b, i + 1, i + Len(a)) = a

\* Python b.replace(old, new): every non-overlapping occurrence, left to right
RECURSIVE Replace(_, _, _)
Replace(s, old, new) ==
    IF old = <<>> \/ Len(s) < Len(old) THEN s
    ELSE IF SubSeq(s, 1, Len(old)) = old
         THEN new \o Replace(SubSeq(s, Len(old) + 1, Len(s)), old, new)
         ELSE <<Head(s)>> \o Replace(Tail(s), old, new)

----------------------------------------------------------------------------
(* Tokens of the XML text *)

Tok(kind, inner) == [t |-> kind, v |-> inner, a |-> <<>>]

GroupOpen(id)      == Tok("group", id)
GroupClose         == Tok("/group", <<>>)
CtxGroupOpen       == Tok("context-group", <<>>)
CtxGroupClose      == Tok("/context-group", <<>>)
CtxKey(k)          == Tok("x-key", k)
CtxNote(n)         == Tok("x-key-note", n)
UnitOpen(id, attr) == [t |-> "trans-unit", v |-> id, a |-> attr]
UnitClose          == Tok("/trans-unit", <<>>)
Source(s)          == Tok("source", s)
Target(s)          == Tok("target", s)
Other(s)           == Tok("other", s)

\* first position >= i holding a token of the kind, 0 if none
RECURSIVE FindFrom(_, _, _)
FindFrom(s, kind, i) ==
    IF i > Len(s) THEN 0
    ELSE IF s[i].t = kind THEN i
    ELSE FindFrom(s, kind, i + 1)

\* re.findall(r'<open[^>]*>.*?</open>', s, re.DOTALL): the non-overlapping
\* spans from an open tag to the first close tag after it
RECURSIVE SpansFrom(_, _, _)
SpansFrom(s, kind, i) ==
    LET o == FindFrom(s, kind, i) IN
    IF o = 0 THEN <<>>
    ELSE LET c == FindFrom(s, "/" \o kind, o + 1) IN
         IF c = 0 THEN <<>>
         ELSE <<<<o, c>>>> \o SpansFrom(s, kind, c + 1)

FindAll(s, kind) ==
    LET sp == SpansFrom(s, kind, 1) IN
    [n \in 1..Len(sp) |-> SubSeq(s, sp[n][1], sp[n][2])]

\* re.search(r'<context-group[^>]*>(.*?)</context-group>', s, re.DOTALL)
SearchContextGroup(s) ==
    LET sp == SpansFrom(s, "context-group", 1) IN
    IF sp = <<>> THEN [found |-> FALSE, content |-> <<>>]
    ELSE [found |-> TRUE, content |-> SubSeq(s, sp[1][1] + 1, sp[1][2] - 1)]

\* re.search(r'<context\s+context-type="<kind>"[^>]*>(.*?)</context>', s)
SearchContext(s, kind) ==
    LET p == FindFrom(s, kind, 1) IN
    IF p = 0 THEN [found |-> FALSE, text |-> <<>>]
    ELSE [found |-> TRUE, text |-> s[p].v]

\* re.search(r'<source[^>]*>(.*?)</source>', s) and the same for target
SearchElement(s, kind) == SearchContext(s, kind)

\* re.search(r'<kind\s+id="([^"]*)"', s): the first open tag of the kind that
\* carries an id
RECURSIVE SearchId(_, _, _)
SearchId(s, kind, i) ==
    LET p == FindFrom(s, kind, i) IN
    IF p = 0 THEN [found |-> FALSE, text |-> <<>>]
    ELSE IF s[p].v # <<>> THEN [found |-> TRUE, text |-> s[p].v]
    ELSE SearchId(s, kind, p + 1)

----------------------------------------------------------------------------
(* Numbers inside texts *)

DefaultOrder == 9999

DigitLexemes == <<"0", "1", "2", "3", "4", "5", "6", "7", "8", "9">>

\* the lexeme that stands for a run of more than 4300 decimal digits
HugeDigits == "99..9"

IsDigits(c) == c = HugeDigits \/ \E n \in 1..Len(DigitLexemes) : DigitLexemes[n] = c

\* f"{n}" for a small n
Str(n) == DigitLexemes[n + 1]

\* int(c) where it returns; a run of more than 4300 digits is above every
\* other order value of the model
ToInt(c) ==
    IF c = HugeDigits THEN DefaultOrder + 1
    ELSE (CHOOSE n \in 1..Len(DigitLexemes) : DigitLexemes[n] = c) - 1

\* int(c) raises ValueError when the interpreter limits the conversion
IntRaises(c, limit) == limit /\ c = HugeDigits

\* first position >= i of the lexeme c in the string s, 0 if none
RECURSIVE FindLexeme(_, _, _)
FindLexeme(s, c, i) ==
    IF i > Len(s) THEN 0
    ELSE IF s[i] = c THEN i
    ELSE FindLexeme(s, c, i + 1)

\* position of the digits matched by re.search(label + r'\s*(\d+)', s) at or
\* after i, 0 if there is no match
RECURSIVE SearchNumber(_, _, _)
SearchNumber(s, label, i) ==
    LET p == FindLexeme(s, label, i)
        SkipBlanks[j \in 1..(Len(s) + 1)] ==
            IF j <= Len(s) /\ s[j] = " " THEN SkipBlanks[j + 1] ELSE j
    IN  IF p = 0 THEN 0
        ELSE LET d == SkipBlanks[p + 1] IN
             IF d <= Len(s) /\ IsDigits(s[d]) THEN d
             ELSE SearchNumber(s, label, p + 1)

\* extract_order_value(note_text), where int() returns
extract_order_value(note_text) ==
    IF note_text = <<>> THEN DefaultOrder
    ELSE LET d == SearchNumber(note_text, "Order:", 1) IN
         IF d = 0 THEN DefaultOrder ELSE ToInt(note_text[d])

\* extract_order_value(note_text) raises
OrderValueRaises(note_text, limit) ==
    /\ note_text # <<>>
    /\ LET d == SearchNumber(note_text, "Order:", 1) IN
       d # 0 /\ IntRaises(note_text[d], limit)

----------------------------------------------------------------------------
(* XMLParser.parse_xml *)

\* the record of one trans-unit (lines 63-156)
UnitRecord(trans_unit, trans_idx, group_id, group_key, group_note_text, index) ==
    LET source_match == SearchElement(trans_unit, "source")
        target_match == SearchElement(trans_unit, "target")
        source_text  == IF source_match.found THEN Strip(source_match.text) ELSE <<>>
        target_text  == IF target_match.found THEN Strip(target_match.text) ELSE <<>>
        trans_id_match == SearchId(trans_unit, "trans-unit", 1)
        trans_id     == IF trans_id_match.found THEN trans_id_match.text
                        ELSE <<"trans_", Str(trans_idx)>>
        unit_context == SearchContextGroup(trans_unit)
        unit_key_match  == SearchContext(unit_context.content, "x-key")
        unit_note_match == SearchContext(unit_context.content, "x-key-note")
        unit_key == IF unit_context.found /\ unit_key_match.found
                    THEN Strip(unit_key_match.text) ELSE group_key
        unit_note_text == IF unit_context.found /\ unit_note_match.found
                          THEN Strip(unit_note_match.text) ELSE group_note_text
    IN  [index                |-> index,
         group_id             |-> group_id,
         trans_id             |-> trans_id,
         source_text          |-> source_text,
         target_text          |-> target_text,
         original_target_text |-> target_text,
         key                  |-> unit_key,
         order_value          |-> extract_order_value(unit_note_text),
         note_text            |-> unit_note_text]

\* the note text a trans-unit resolves to, on which extract_order_value is called
UnitNoteText(trans_unit, group_note_text) ==
    LET unit_context == SearchContextGroup(trans_unit)
        unit_note_match == SearchContext(unit_context.content, "x-key-note")
    IN  IF unit_context.found /\ unit_note_match.found
        THEN Strip(unit_note_match.text) ELSE group_note_text

\* the loop over the trans-units of one group (lines 62-156); st is
\* [data, errors]; the loop ends at the first trans-unit that raises
RECURSIVE ParseUnits(_, _, _, _, _, _, _, _)
ParseUnits(trans_units, n, group_idx, group_id, group_key, group_note_text, limit, st) ==
    IF n > Len(trans_units) THEN st
    ELSE IF OrderValueRaises(UnitNoteText(trans_units[n], group_note_text), limit)
         THEN [st EXCEPT !.errors = Append(@, group_idx)]
         ELSE ParseUnits(trans_units, n + 1, group_idx, group_id, group_key,
                         group_note_text, limit,
                         [st EXCEPT !.data = Append(@,
                             UnitRecord(trans_units[n], n - 1, group_id, group_key,
                                        group_note_text, Len(st.data)))])

\* the body of the loop over groups (lines 26-161)
ParseGroup(group, group_idx, limit, st) ==
    LET group_id_match == SearchId(group, "group", 1)
        group_id == IF group_id_match.found THEN group_id_match.text
                    ELSE <<"group_", Str(group_idx)>>
        context_group_match == SearchContextGroup(group)
        key_match  == SearchContext(context_group_match.content, "x-key")
        note_match == SearchContext(context_group_match.content, "x-key-note")
        group_key == IF context_group_match.found /\ key_match.found
                     THEN Strip(key_match.text) ELSE <<>>
        group_note_text == IF context_group_match.found /\ note_match.found
                           THEN Strip(note_match.text) ELSE <<>>
    IN  ParseUnits(FindAll(group, "trans-unit"), 1, group_idx, group_id,
                   group_key, group_note_text, limit, st)

RECURSIVE ParseGroups(_, _, _, _)
ParseGroups(groups, n, limit, st) ==
    IF n > Len(groups) THEN st
    ELSE ParseGroups(groups, n + 1, limit, ParseGroup(groups[n], n - 1, limit, st))

\* faulty variants of parse_xml: one numbers the records from 1, one leaves
\* out the first group
parse_xml_OneBased(xml_content, limit) ==
    LET r == ParseGroups(FindAll(xml_content, "group"), 1, limit,
                         [data |-> <<>>, errors |-> <<>>])
    IN  [r EXCEPT !.data = [i \in 1..Len(r.data) |-> [r.data[i] EXCEPT !.index = i]]]

parse_xml_SkipsFirstGroup(xml_content, limit) ==
    ParseGroups(FindAll(xml_content, "group"), 2, limit,
                [data |-> <<>>, errors |-> <<>>])

\* XMLParser.parse_xml(xml_content, logger): [data, errors], data the list
\* returned and errors the group indexes reported to the logger
parse_xml(xml_content, limit) ==
    ParseGroups(FindAll(xml_content, "group"), 1, limit,
                [data |-> <<>>, errors |-> <<>>])

----------------------------------------------------------------------------
(* XMLParser.update_xml_content *)

Comment(c) == Tok("comment", c)

\* the temporary markers (lines 256-257 and 357-358); n stands for id(...)
MarkerStart(n)      == Comment(<<"XMLUPDATE_START_", Str(n)>>)
MarkerEnd(n)        == Comment(<<"XMLUPDATE_END_", Str(n)>>)
GroupMarkerStart(n) == Comment(<<"XMLUPDATE_GROUP_START_", Str(n)>>)
GroupMarkerEnd(n)   == Comment(<<"XMLUPDATE_GROUP_END_", Str(n)>>)

\* a comment matched by r'<!-- XMLUPDATE_[^>]*-->'
IsMarker(tok) ==
    /\ tok.t = "comment"
    /\ tok.v # <<>>
    /\ tok.v[1] \in {"XMLUPDATE_", "XMLUPDATE_START_", "XMLUPDATE_END_",
                     "XMLUPDATE_GROUP_START_", "XMLUPDATE_GROUP_END_"}

\* re.sub(r'<!-- XMLUPDATE_[^>]*-->', '', updated_xml) (line 379)
\* faulty variant: the markers stay in the text
StripMarkers_Kept(s) == s

RECURSIVE StripMarkers(_)
StripMarkers(s) ==
    IF s = <<>> THEN <<>>
    ELSE IF IsMarker(Head(s)) THEN StripMarkers(Tail(s))
    ELSE <<Head(s)>> \o StripMarkers(Tail(s))

\* the entries of processed_data that carry a keyed item (lines 185-188)
IsKeyedItem(d) == ~d.is_header /\ d.has_item /\ d.item.key # <<>>

\* key_to_translation (lines 184-191) as the set of its keys
TranslationKeys(processed_data) ==
    {processed_data[i].item.key :
        i \in {j \in 1..Len(processed_data) : IsKeyedItem(processed_data[j])}}

\* faulty variant: every keyed entry counts as edited
EditedTranslations_AllKeyed(processed_data) ==
    [k \in TranslationKeys(processed_data) |->
        LET with == {i \in 1..Len(processed_data) :
                        IsKeyedItem(processed_data[i]) /\ processed_data[i].item.key = k}
            last == CHOOSE i \in with : \A j \in with : j <= i
        IN  [new      |-> processed_data[last].item.target_text,
             original |-> processed_data[last].item.original_target_text]]

\* edited_translations (lines 184-198): the last changed entry of a key wins
EditedTranslations(processed_data) ==
    LET changed(k) == {i \in 1..Len(processed_data) :
                          /\ IsKeyedItem(processed_data[i])
                          /\ processed_data[i].item.key = k
                          /\ processed_data[i].item.target_text
                                 # processed_data[i].item.original_target_text}
        keys == {k \in TranslationKeys(processed_data) : changed(k) # {}}
    IN  [k \in keys |->
            LET last == CHOOSE i \in changed(k) : \A j \in changed(k) : j <= i
            IN  [new      |-> processed_data[last].item.target_text,
                 original |-> processed_data[last].item.original_target_text]]

\* the key a trans-unit carries in its own context-group (lines 229-238 and
\* 296-302); <<>> stands for None
OwnKey(trans_unit) ==
    LET context_group_match == SearchContextGroup(trans_unit)
        key_match == SearchContext(context_group_match.content, "x-key")
    IN  IF context_group_match.found /\ key_match.found
        THEN Strip(key_match.text) ELSE <<>>

\* trans_unit.replace(target_match.group(0), open + new_text + close)
\* (lines 243-252 and 336-345); unchanged when there is no target element
WithNewTarget(trans_unit, new_text) ==
    LET p == FindFrom(trans_unit, "target", 1) IN
    IF p = 0 THEN trans_unit
    ELSE Replace(trans_unit, <<trans_unit[p]>>, <<Target(new_text)>>)

\* faulty variant: a trans-unit without target element counts as updated
HasTarget_Always(trans_unit) == TRUE

\* target_match of lines 241 and 334
HasTarget(trans_unit) == FindFrom(trans_unit, "target", 1) # 0

\* wrap every occurrence of old in markers, then swap the marked block
\* (lines 259-265 and 360-366)
MarkedReplace(text, old, new, marker_start, marker_end) ==
    LET marked_original == <<marker_start>> \o old \o <<marker_end>>
        marked_updated  == <<marker_start>> \o new \o <<marker_end>>
    IN  Replace(Replace(text, old, marked_original), marked_original, marked_updated)

\* the first pass over every trans-unit of the text (lines 227-268);
\* st is [xml, keys]: updated_xml and updated_keys
RECURSIVE FirstPass(_, _, _, _)
FirstPass(trans_units, n, edited, st) ==
    IF n > Len(trans_units) THEN st
    ELSE LET trans_unit == trans_units[n]
             key == OwnKey(trans_unit)
         IN  IF key # <<>> /\ key \in DOMAIN edited /\ HasTarget(trans_unit)
             THEN FirstPass(trans_units, n + 1, edited,
                      [xml  |-> MarkedReplace(st.xml, trans_unit,
                                    WithNewTarget(trans_unit, edited[key].new),
                                    MarkerStart(n), MarkerEnd(n)),
                       keys |-> st.keys \cup {key}])
             ELSE FirstPass(trans_units, n + 1, edited, st)

\* re.search(r'<trans-unit[^>]*key="([^"]*)"', trans_unit) (line 306)
RECURSIVE SearchKeyAttr(_, _)
SearchKeyAttr(s, i) ==
    LET p == FindFrom(s, "trans-unit", i) IN
    IF p = 0 THEN [found |-> FALSE, text |-> <<>>]
    ELSE IF s[p].a # <<>> THEN [found |-> TRUE, text |-> s[p].a]
    ELSE SearchKeyAttr(s, p + 1)

\* the first key of `order` that contains trans_id or is contained in it
\* (lines 328-331); order is the iteration order of the set missing_keys
RECURSIVE FirstRelatedKey(_, _, _)
FirstRelatedKey(order, n, trans_id) ==
    IF n > Len(order) THEN <<>>
    ELSE IF Contains(trans_id, order[n]) \/ Contains(order[n], trans_id)
         THEN order[n]
         ELSE FirstRelatedKey(order, n + 1, trans_id)

\* the key the second pass gives a trans-unit of a group (lines 291-331)
SecondPassKey(trans_unit, group, order) ==
    LET own == OwnKey(trans_unit)
        key_attr_match == SearchKeyAttr(trans_unit, 1)
        group_context_match == SearchContextGroup(group)
        group_key_match == SearchContext(group_context_match.content, "x-key")
        trans_id_match == SearchId(trans_unit, "trans-unit", 1)
    IN  IF own # <<>> THEN own
        ELSE IF key_attr_match.found /\ Strip(key_attr_match.text) # <<>>
             THEN Strip(key_attr_match.text)
        ELSE IF group_context_match.found /\ group_key_match.found
                /\ trans_id_match.found
             THEN FirstRelatedKey(order, 1, Strip(trans_id_match.text))
        ELSE <<>>

\* the loop over the trans-units of one group (lines 290-352);
\* gs is [group, modified, keys]: updated_group, group_modified, updated_keys
RECURSIVE SecondPassUnits(_, _, _, _, _, _)
SecondPassUnits(group_trans_units, n, group, edited, order, gs) ==
    IF n > Len(group_trans_units) THEN gs
    ELSE LET trans_unit == group_trans_units[n]
             key == SecondPassKey(trans_unit, group, order)
             missing_keys == {order[i] : i \in 1..Len(order)}
         IN  IF key # <<>> /\ key \in missing_keys /\ HasTarget(trans_unit)
             THEN SecondPassUnits(group_trans_units, n + 1, group, edited, order,
                      [group    |-> Replace(gs.group, trans_unit,
                                        WithNewTarget(trans_unit, edited[key].new)),
                       modified |-> TRUE,
                       keys     |-> gs.keys \cup {key}])
             ELSE SecondPassUnits(group_trans_units, n + 1, group, edited, order, gs)

\* the loop over the groups of the text (lines 284-366)
RECURSIVE SecondPass(_, _, _, _, _)
SecondPass(groups, n, edited, order, st) ==
    IF n > Len(groups) THEN st
    ELSE LET group == groups[n]
             gs == SecondPassUnits(FindAll(group, "trans-unit"), 1, group, edited,
                       order, [group |-> group, modified |-> FALSE, keys |-> st.keys])
         IN  SecondPass(groups, n + 1, edited, order,
                 [xml  |-> IF gs.modified
                           THEN MarkedReplace(st.xml, group, gs.group,
                                    GroupMarkerStart(n), GroupMarkerEnd(n))
                           ELSE st.xml,
                  keys |-> gs.keys])

\* the most keys a warning names (lines 276 and 372)
LogListLimit == 5

\* list(keys)[:5] for a set iterated in the order given
FirstListed(order, keys) ==
    LET listed == SelectSeq(order, LAMBDA k : k \in keys)
    IN  {listed[i] : i \in 1..Len(listed) \cap 1..LogListLimit}

\* the orders in which a set of keys can be iterated
Orders(keys) ==
    {o \in [1..Cardinality(keys) -> keys] :
        \A i, j \in 1..Cardinality(keys) : i # j => o[i] # o[j]}

\* faulty variant: an empty record list is let through
InputsMissing_TextOnly(original_xml_content, processed_data) ==
    original_xml_content = <<>>

\* the inputs update_xml_content refuses (lines 171-175)
InputsMissing(original_xml_content, processed_data) ==
    original_xml_content = <<>> \/ processed_data = <<>>

NoOutcome == [status |-> "none", text |-> <<>>, edited |-> {}, updated_keys |-> {},
              first_pass_keys |-> {}, warned |-> {}, warned_count |-> 0]

\* XMLParser.update_xml_content(original_xml_content, processed_data, logger)
\* with `order` the iteration order of the set missing_keys (lines 169-381)
update_xml_content(original_xml_content, processed_data, order) ==
    IF InputsMissing(original_xml_content, processed_data)
    THEN [NoOutcome EXCEPT !.status = "ValueError"]
    ELSE
    LET edited == EditedTranslations(processed_data) IN
    IF DOMAIN edited = {}
    THEN [NoOutcome EXCEPT !.status = "unedited", !.text = original_xml_content]
    ELSE
    LET first == FirstPass(FindAll(original_xml_content, "trans-unit"), 1, edited,
                     [xml |-> original_xml_content, keys |-> {}])
        missing_keys == DOMAIN edited \ first.keys
        second == IF missing_keys # {}
                  THEN SecondPass(FindAll(first.xml, "group"), 1, edited, order, first)
                  ELSE first
        final_missing == DOMAIN edited \ second.keys
    IN  [status          |-> "updated",
         text            |-> StripMarkers(second.xml),
         edited          |-> DOMAIN edited,
         updated_keys    |-> second.keys,
         first_pass_keys |-> first.keys,
         warned          |-> FirstListed(order, final_missing),
         warned_count    |-> Cardinality(final_missing)]

\* the set missing_keys whose iteration order a call depends on
MissingKeys(original_xml_content, processed_data) ==
    IF InputsMissing(original_xml_content, processed_data) THEN {}
    ELSE LET edited == EditedTranslations(processed_data) IN
         DOMAIN edited \ FirstPass(FindAll(original_xml_content, "trans-unit"), 1,
                             edited, [xml |-> original_xml_content, keys |-> {}]).keys

----------------------------------------------------------------------------
(* The explored inputs: MXLIFF texts of at most MaxUnits trans-units *)

K1 == <<"k", "1">>
K2 == <<"k", "2">>
K3 == <<"7", "x">>

UnitIds   == {<<"1">>, <<"7">>}
UnitKeys  == {<<>>, K1, K2}
GroupKeys == {<<>>, K1, K2}

\* one trans-unit of a text: whether it opens a new group (and the key of
\* that group's context-group), its id and the key of its own context-group
UnitShapes(ids, gkeys, keys) ==
    {e \in [start : BOOLEAN, gkey : gkeys, id : ids, own : keys] :
        ~e.start => e.gkey = <<>>}

Shapes(units, n) == {s \in [1..n -> units] : s[1].start}

ContextGroup(key, note) ==
    <<CtxGroupOpen>>
    \o (IF key # <<>> THEN <<CtxKey(key)>> ELSE <<>>)
    \o (IF note # <<>> THEN <<CtxNote(note)>> ELSE <<>>)
    \o <<CtxGroupClose>>

\* the tokens of one trans-unit; `variant` shapes the unit
UnitTokens(e, variant, source_text) ==
    LET note == IF variant = "huge-order" THEN <<"Order:", HugeDigits>>
                ELSE IF variant = "ordered" THEN <<"Order:", " ", "1">>
                ELSE <<>>
        \* a numbered unit has a target text of its own as well
        text == IF variant = "padded" THEN <<" ", "a", " ">>
                ELSE <<"a">> \o SubSeq(source_text, 2, Len(source_text))
    IN  <<UnitOpen(e.id, IF variant = "key-attr" THEN K2 ELSE <<>>)>>
        \o (IF e.own # <<>> \/ note # <<>> THEN ContextGroup(e.own, note) ELSE <<>>)
        \o <<Source(source_text)>>
        \o (IF variant = "no-target" THEN <<>> ELSE <<Target(text)>>)
        \o (IF variant = "alt-trans"
            THEN <<Other(<<"alt-trans">>), Target(text), Other(<<"/alt-trans">>)>>
            ELSE <<>>)
        \o (IF variant = "unterminated" THEN <<>> ELSE <<UnitClose>>)

GroupHead(e, n) ==
    <<GroupOpen(<<"g", Str(n)>>)>>
    \o (IF e.gkey # <<>> THEN ContextGroup(e.gkey, <<>>) ELSE <<>>)

\* the text of the units s[i..]; the variant shapes the unit at position
\* `at`, and the variant "loose" puts that unit outside every group
RECURSIVE BuildFrom(_, _, _, _, _, _, _)
BuildFrom(s, i, variant, at, numbered, groups, open) ==
    LET close == IF open THEN <<GroupClose>> ELSE <<>>
        source_text == IF numbered THEN <<"s", Str(i)>> ELSE <<"s">>
    IN
    IF i > Len(s) THEN close
    ELSE IF i = at /\ variant = "loose"
         THEN close \o UnitTokens(s[i], "plain", source_text)
                    \o BuildFrom(s, i + 1, variant, at, numbered, groups, FALSE)
    ELSE LET v == IF i = at THEN variant ELSE "plain" IN
         IF s[i].start \/ ~open
         THEN close \o GroupHead(s[i], groups + 1) \o UnitTokens(s[i], v, source_text)
                    \o BuildFrom(s, i + 1, variant, at, numbered, groups + 1, TRUE)
         ELSE UnitTokens(s[i], v, source_text)
                  \o BuildFrom(s, i + 1, variant, at, numbered, groups, TRUE)

\* numbered: every unit has a source text of its own, else all share one
Build(s, variant, at, numbered) ==
    <<Comment(<<"header">>)>> \o BuildFrom(s, 1, variant, at, numbered, 0, FALSE)

\* a text without any group or trans-unit
BareText == <<Comment(<<"header">>)>>

----------------------------------------------------------------------------
(* The display entries handed to update_xml_content *)

NoItem == [index |-> 0, group_id |-> <<>>, trans_id |-> <<>>, source_text |-> <<>>,
           target_text |-> <<>>, original_target_text |-> <<>>, key |-> <<>>,
           order_value |-> DefaultOrder, note_text |-> <<>>]

HeaderEntry == [is_header |-> TRUE, has_item |-> FALSE, item |-> NoItem]

ItemEntry(item) == [is_header |-> FALSE, has_item |-> TRUE, item |-> item]

\* one header followed by the records as items (main_window.py 2229-2242)
Entries(records) ==
    IF records = <<>> THEN <<>>
    ELSE <<HeaderEntry>> \o [i \in 1..Len(records) |-> ItemEntry(records[i])]

\* an unedited record whose key no text of the model carries in a context
ForeignRecord(index) ==
    [NoItem EXCEPT !.index = index, !.key = K3, !.target_text = <<"a">>,
                   !.original_target_text = <<"a">>]

----------------------------------------------------------------------------
(* SpecParse: XMLParser.parse_xml applied to the explored texts *)

MaxParseUnits == 3

ParseUnitShapes == UnitShapes({<<"1">>}, {<<>>, K2}, {<<>>, K1})

ParseVariants == {"huge-order", "loose", "no-target", "padded", "unterminated"}

ParseTexts(most) ==
    {BareText}
    \cup UNION {{Build(s, "plain", 0, TRUE) : s \in Shapes(ParseUnitShapes, n)}
                \cup {Build(s, v, at, TRUE) : s \in Shapes(ParseUnitShapes, n),
                                        v \in ParseVariants, at \in 1..n}
                : n \in 1..most}

InitParse ==
    /\ xml \in ParseTexts(MaxParseUnits)
    /\ intLimit \in BOOLEAN
    /\ data = <<>>
    /\ recs = [data |-> <<>>, errors |-> <<>>]
    /\ out = NoOutcome
    /\ pc = "input"

\* one call of XMLParser.parse_xml
Extract ==
    /\ pc = "input"
    /\ recs' = parse_xml(xml, intLimit)
    /\ pc' = "parsed"
    /\ UNCHANGED <<xml, data, out, intLimit>>

NextParse == Extract

SpecParse == InitParse /\ [][NextParse]_vars

----------------------------------------------------------------------------
(* SpecPatch: XMLParser.update_xml_content applied to a text and to the      *)
(* display entries of records whose target_text the caller has edited        *)

PatchUnitShapes ==
    {e \in UnitShapes(UnitIds, GroupKeys, UnitKeys) : e.own # <<>> => e.id = <<"1">>}

PatchVariants == {"alt-trans", "key-attr", "no-target", "padded", "loose"}

\* the texts whose first unit is shaped by a variant: that unit has the id
\* "1" and no key or K1, the units after it lie in groups without a key
VariantShapes(n) ==
    {s \in Shapes(UnitShapes({<<"1">>}, GroupKeys, UnitKeys), n) :
        /\ s[1].own \in {<<>>, K1}
        /\ \A i \in 2..n : s[i].gkey = <<>>}

PatchTexts(most) ==
    {<<>>, BareText}
    \cup UNION {{Build(s, "plain", 0, FALSE) : s \in Shapes(PatchUnitShapes, n)}
                \cup {Build(s, v, 1, FALSE) : s \in VariantShapes(n), v \in PatchVariants}
                : n \in 1..most}

\* the text whose records accompany the empty text
ReferenceText ==
    Build(<<[start |-> TRUE, gkey |-> <<>>, id |-> <<"1">>, own |-> K1]>>, "plain", 0, FALSE)

\* the record lists handed over with a text: none, the records extracted from
\* the text, and these followed by a record of a key foreign to the text
PatchData(text) ==
    LET records == parse_xml(IF text = <<>> THEN ReferenceText ELSE text, FALSE).data
    IN  {<<>>, Entries(records)}
        \cup (IF Len(records) < MaxUnits
              THEN {Entries(Append(records, ForeignRecord(Len(records))))}
              ELSE {})

InitPatch ==
    /\ xml \in PatchTexts(MaxUnits)
    /\ data \in PatchData(xml)
    /\ intLimit = FALSE
    /\ recs = [data |-> <<>>, errors |-> <<>>]
    /\ out = NoOutcome
    /\ pc = "input"

\* the edits explored: any record set to "b", the last one also to "c"
Edits(entries) ==
    {<<i, <<"b">>>> : i \in 1..Len(entries)} \cup {<<Len(entries), <<"c">>>>}

\* the caller sets the target_text of one record (spec 3, Lifecycle)
Mutate(i, new_text) ==
    /\ pc = "input"
    /\ i \in 1..Len(data)
    /\ data[i].has_item
    /\ data' = [data EXCEPT ![i].item.target_text = new_text]
    /\ UNCHANGED <<xml, recs, out, intLimit, pc>>

\* one call of XMLParser.update_xml_content
Patch(order) ==
    /\ pc = "input"
    /\ out' = update_xml_content(xml, data, order)
    /\ pc' = "patched"
    /\ UNCHANGED <<xml, data, recs, intLimit>>

NextPatch ==
    \/ \E e \in Edits(data) : Mutate(e[1], e[2])
    \/ \E order \in Orders(MissingKeys(xml, data)) : Patch(order)

SpecPatch == InitPatch /\ [][NextPatch]_vars

----------------------------------------------------------------------------
(* Key ordering (utils.py) *)

\* last position of the lexeme c in the string s, 0 if none
RECURSIVE LastLexeme(_, _, _)
LastLexeme(s, c, i) ==
    IF i < 1 THEN 0
    ELSE IF s[i] = c THEN i
    ELSE LastLexeme(s, c, i - 1)

\* a faulty variant: the key is cut at its first period, not at its last
extract_main_key_FirstDot(full_key) ==
    IF full_key = <<>> THEN <<>>
    ELSE LET slash_index == FindLexeme(full_key, "/", 1)
             dot_index == FindLexeme(full_key, ".", 1)
         IN  IF slash_index # 0 THEN SubSeq(full_key, 1, slash_index - 1)
             ELSE IF dot_index # 0 THEN SubSeq(full_key, 1, dot_index - 1)
             ELSE full_key

\* extract_main_key(full_key) (utils.py 4-14)
extract_main_key(full_key) ==
    IF full_key = <<>> THEN <<>>
    ELSE LET slash_index == FindLexeme(full_key, "/", 1)
             last_dot_index == LastLexeme(full_key, ".", Len(full_key))
         IN  IF slash_index # 0 THEN SubSeq(full_key, 1, slash_index - 1)
             ELSE IF last_dot_index # 0 THEN SubSeq(full_key, 1, last_dot_index - 1)
             ELSE full_key

LineLabels == {"Line_", "Line:", "line_", "line:"}

\* position of the digits matched by re.search(r'Line[_:](\d+)', s,
\* re.IGNORECASE) at or after i, 0 if there is no match
RECURSIVE SearchLine(_, _)
SearchLine(s, i) ==
    IF i >= Len(s) THEN 0
    ELSE IF s[i] \in LineLabels /\ IsDigits(s[i + 1]) THEN i + 1
    ELSE SearchLine(s, i + 1)

extract_line_number(item) ==
    LET in_key  == SearchLine(item.key, 1)
        in_note == SearchLine(item.note_text, 1)
    IN  IF in_key # 0 THEN ToInt(item.key[in_key])
        ELSE IF in_note # 0 THEN ToInt(item.note_text[in_note])
        ELSE item.order_value

\* re.findall(r'\d+', k) as integers: every run of digit lexemes is one number
RECURSIVE Numbers(_, _, _, _)
Numbers(k, i, inRun, acc) ==
    IF i > Len(k) THEN (IF inRun THEN <<acc>> ELSE <<>>)
    ELSE IF IsDigits(k[i]) THEN Numbers(k, i + 1, TRUE, acc * 10 + ToInt(k[i]))
    ELSE (IF inRun THEN <<acc>> ELSE <<>>) \o Numbers(k, i + 1, FALSE, 0)

\* a faulty variant: the numbers are compared, the 'Main' priority is not
natural_sort_key_NoPriority(k) ==
    [not_main      |-> TRUE,
     numeric_parts |-> Numbers(k, 1, FALSE, 0)]

\* natural_sort_key(k) (utils.py 87-104)
natural_sort_key(k) ==
    [not_main      |-> ~Contains(<<"Main">>, k),
     numeric_parts |-> Numbers(k, 1, FALSE, 0)]

\* a < b for two lists of integers, as Python compares lists
RECURSIVE ListLess(_, _)
ListLess(a, b) ==
    IF b = <<>> THEN FALSE
    ELSE IF a = <<>> THEN TRUE
    ELSE IF Head(a) # Head(b) THEN Head(a) < Head(b)
    ELSE ListLess(Tail(a), Tail(b))

\* natural_sort_key(a) < natural_sort_key(b), as Python compares the tuples
NaturalLess(a, b) ==
    LET ka == natural_sort_key(a)
        kb == natural_sort_key(b)
    IN  IF ka.not_main # kb.not_main THEN ~ka.not_main
        ELSE ListLess(ka.numeric_parts, kb.numeric_parts)

\* (order_value, index) of a < (order_value, index) of b (main_window.py 2200)
ItemLess(a, b) ==
    \/ a.order_value < b.order_value
    \/ a.order_value = b.order_value /\ a.index < b.index

\* sorted() is stable: x goes behind the longest prefix of the sorted rest
\* that holds nothing above it; first position of rest that is above x
InsertAt(rest, above) ==
    IF above = {} THEN Len(rest) + 1
    ELSE CHOOSE q \in above : \A j \in above : q <= j

\* sorted(grouped_data.keys(), key=natural_sort_key) (lines 2190-2194)
RECURSIVE SortedKeys(_)
SortedKeys(s) ==
    IF s = <<>> THEN <<>>
    ELSE LET rest == SortedKeys(SubSeq(s, 1, Len(s) - 1))
             x == s[Len(s)]
             q == InsertAt(rest, {j \in 1..Len(rest) : NaturalLess(x, rest[j])})
         IN  SubSeq(rest, 1, q - 1) \o <<x>> \o SubSeq(rest, q, Len(rest))

\* sorted(grouped_data[main_key], key=(order_value, index)) (lines 2198-2201)
RECURSIVE SortedItems(_)
SortedItems(s) ==
    IF s = <<>> THEN <<>>
    ELSE LET rest == SortedItems(SubSeq(s, 1, Len(s) - 1))
             x == s[Len(s)]
             q == InsertAt(rest, {j \in 1..Len(rest) : ItemLess(x, rest[j])})
         IN  SubSeq(rest, 1, q - 1) \o <<x>> \o SubSeq(rest, q, Len(rest))

----------------------------------------------------------------------------
(* MXLIFFParser (main_window.py): the loaded file and its display entries *)

\* '[MISSING LINE]', character by character
MissingLine == <<"[", "M", "I", "S", "S", "I", "N", "G", " ", "L", "I", "N", "E", "]">>
Ungrouped == <<"UngroupedContent">>

\* a record of parse_xml as an item of the display; the keys a Python dict
\* lacks are the fields at their .get() defaults
DisplayItem(item) ==
    [index                |-> item.index,
     group_id             |-> item.group_id,
     trans_id             |-> item.trans_id,
     source_text          |-> item.source_text,
     target_text          |-> item.target_text,
     original_target_text |-> item.original_target_text,
     key                  |-> item.key,
     order_value          |-> item.order_value,
     note_text            |-> item.note_text,
     is_missing_line      |-> FALSE,
     missing_line_number  |-> 0,
     has_document_match   |-> FALSE]

\* missing_line_item (lines 2214-2221): a copy of the item with five keys set
Placeholder(item, expected_line_number) ==
    [item EXCEPT !.is_missing_line = TRUE,
                 !.missing_line_number = expected_line_number,
                 !.source_text = MissingLine,
                 !.target_text = MissingLine,
                 !.key = item.key \o <<"_missing_", Str(expected_line_number)>>]

\* a faulty variant: the loop also runs for the line number of the item
RECURSIVE MissingLines_UpToCurrent(_, _, _)
MissingLines_UpToCurrent(item, expected_line_number, current_line_number) ==
    IF expected_line_number <= current_line_number
    THEN <<Placeholder(item, expected_line_number)>>
         \o MissingLines_UpToCurrent(item, expected_line_number + 1, current_line_number)
    ELSE <<>>

\* the while loop of lines 2212-2223
RECURSIVE MissingLines(_, _, _)
MissingLines(item, expected_line_number, current_line_number) ==
    IF expected_line_number < current_line_number
    THEN <<Placeholder(item, expected_line_number)>>
         \o MissingLines(item, expected_line_number + 1, current_line_number)
    ELSE <<>>

\* ordered_group_items (lines 2203-2226)
RECURSIVE OrderedGroupItems(_, _, _)
OrderedGroupItems(group_items, n, expected_line_number) ==
    IF n > Len(group_items) THEN <<>>
    ELSE LET item == group_items[n]
             current_line_number == extract_line_number(item)
         IN  MissingLines(item, expected_line_number, current_line_number)
             \o <<item>>
             \o OrderedGroupItems(group_items, n + 1, current_line_number + 1)

MainKeyOf(item) ==
    IF extract_main_key(item.key) = <<>> THEN Ungrouped
    ELSE extract_main_key(item.key)

\* the keys of grouped_data in insertion order (lines 2176-2183)
RECURSIVE MainKeys(_, _, _)
MainKeys(items, n, seen) ==
    IF n > Len(items) THEN <<>>
    ELSE IF MainKeyOf(items[n]) \in seen THEN MainKeys(items, n + 1, seen)
    ELSE <<MainKeyOf(items[n])>>
         \o MainKeys(items, n + 1, seen \cup {MainKeyOf(items[n])})

\* a row of the display: a group header or an item; cell is the text the
\* target cell of the row holds as Qt.UserRole (line 2566, line 1954)
HeaderRow(main_key, item_count) ==
    [is_header |-> TRUE, has_item |-> FALSE, main_key |-> main_key,
     item_count |-> item_count, item |-> DisplayItem(NoItem), cell |-> <<>>]

ItemRow(item) ==
    [is_header |-> FALSE, has_item |-> TRUE, main_key |-> <<>>,
     item_count |-> 0, item |-> item, cell |-> item.target_text]

\* the rows of one main key (lines 2196-2242)
GroupRows(items, main_key) ==
    LET group_items == SortedItems(SelectSeq(items, LAMBDA x : MainKeyOf(x) = main_key))
        ordered_group_items == OrderedGroupItems(group_items, 1, 1)
    IN  <<HeaderRow(main_key, Len(ordered_group_items))>>
        \o [i \in 1..Len(ordered_group_items) |-> ItemRow(ordered_group_items[i])]

RECURSIVE RowsOf(_, _, _)
RowsOf(items, sorted_keys, n) ==
    IF n > Len(sorted_keys) THEN <<>>
    ELSE GroupRows(items, sorted_keys[n]) \o RowsOf(items, sorted_keys, n + 1)

\* display_data of MXLIFFParser.parse_xml (lines 2168-2245)
DisplayData(processed_data) ==
    LET items == [i \in 1..Len(processed_data) |-> DisplayItem(processed_data[i])]
        sorted_keys == SortedKeys(MainKeys(items, 1, {}))
    IN  RowsOf(items, sorted_keys, 1)

----------------------------------------------------------------------------
(* Spec: the application. A file is opened, target cells are edited, the  *)
(* comments matched in a document are applied, the file is exported       *)

MaxAppUnits == 2
MaxEdits == 2
MaxUpdates == 2

QL1  == <<"Q", "/", "Line_", "1">>
QL1F == QL1 \o <<".F">>
ML2  == <<"Main", "7", "/", "Line_", "2">>

AppKeys == {QL1, QL1F, ML2}

\* every trans-unit in a group of its own, with its own context-group
AppUnitShapes == {e \in UnitShapes({<<"1">>}, {<<>>}, AppKeys) : e.start}

\* the files: every trans-unit carries a key with a line number; in the
\* "ordered" files, whose keys share one main key, the last trans-unit has
\* an Order note
AppTexts(most) ==
    UNION {{Build(s, "plain", 0, TRUE) : s \in Shapes(AppUnitShapes, n)}
           \cup {Build(s, "ordered", n, TRUE) :
                    s \in {t \in Shapes(AppUnitShapes, n) :
                              \A i \in 1..n : t[i].own \in {QL1, QL1F}}} :
           n \in 1..most}

Init ==
    /\ xml \in AppTexts(MaxAppUnits)
    /\ data = <<>>
    /\ recs = [data |-> <<>>, errors |-> <<>>]
    /\ out = NoOutcome
    /\ intLimit = FALSE
    /\ pc = "idle"

\* _process_file and MXLIFFParser.parse_xml: original_xml_content is xml,
\* processed_data is data; a session opens its file once
OpenFile ==
    /\ pc = "idle"
    /\ recs' = parse_xml(xml, intLimit)
    /\ data' = DisplayData(recs'.data)
    /\ out' = NoOutcome
    /\ pc' = "loaded"
    /\ UNCHANGED <<xml, intLimit>>

\* a file is loaded and not yet exported: the session ends with the export
Loaded == pc = "loaded"

ItemRows(entries) == {i \in 1..Len(entries) : entries[i].has_item}

\* first and last row whose item has the key, 0 if none
FirstWithKey(entries, key) ==
    LET rows == {i \in ItemRows(entries) : entries[i].item.key = key}
    IN  IF rows = {} THEN 0 ELSE CHOOSE i \in rows : \A j \in rows : i <= j

LastWithKey(entries, key) ==
    LET rows == {i \in ItemRows(entries) : entries[i].item.key = key}
    IN  IF rows = {} THEN 0 ELSE CHOOSE i \in rows : \A j \in rows : j <= i

EndsWithF(key) == key # <<>> /\ key[Len(key)] = ".F"

\* key in self.diff_pairs (compare_translations, lines 1724-1763): a key
\* without .F whose .F variant is the key of an item as well
InDiffPairs(entries, key) ==
    /\ key # <<>>
    /\ ~EndsWithF(key)
    /\ LastWithKey(entries, key) # 0
    /\ LastWithKey(entries, key \o <<".F">>) # 0

\* faulty variant: every edit stores the text it replaces as the original
StoredOriginal_Overwrites(item_data) == item_data.target_text

\* the original text on_cell_changed leaves in an item (lines 1943-1945):
\* stored only if the item has none
StoredOriginal(item_data) == item_data.original_target_text

\* the rows whose target cell no longer holds the text it was displayed with
EditedRows(entries) ==
    {i \in ItemRows(entries) :
        entries[i].cell # (IF entries[i].item.is_missing_line THEN MissingLine
                           ELSE entries[i].item.original_target_text)}

\* on_cell_changed(row, target column) with the text typed into the cell
OnCellChanged(row, new_text) ==
    /\ Loaded
    /\ row \in ItemRows(data)
    /\ new_text # data[row].cell
    /\ Cardinality(EditedRows(data) \cup {row}) <= MaxEdits
    /\ LET key_text == data[row].item.key
           first == FirstWithKey(data, key_text)
           base_key == IF EndsWithF(key_text)
                       THEN SubSeq(key_text, 1, Len(key_text) - 1) ELSE key_text
           \* the item self.diff_pairs aliases: the last one with the key
           paired == IF /\ FirstWithKey(data, base_key) # 0
                        /\ FirstWithKey(data, base_key \o <<".F">>) # 0
                        /\ InDiffPairs(data, base_key)
                     THEN LastWithKey(data, key_text) ELSE first
           stored == [data EXCEPT
                         ![first].item.original_target_text = StoredOriginal(data[first].item),
                         ![first].item.target_text = new_text]
       IN  data' = [[stored EXCEPT ![paired].item.target_text = new_text]
                       EXCEPT ![row].cell = new_text]
    /\ out' = NoOutcome
    /\ pc' = "loaded"
    /\ UNCHANGED <<xml, recs, intLimit>>

\* re.sub(r'Comment:.*?(?=\n|$)', f'Comment: {comment}', note_text)
RECURSIVE ReplaceComments(_, _, _)
ReplaceComments(note_text, comment, skipping) ==
    IF note_text = <<>> THEN <<>>
    ELSE IF Head(note_text) = "\n"
         THEN <<"\n">> \o ReplaceComments(Tail(note_text), comment, FALSE)
    ELSE IF skipping THEN ReplaceComments(Tail(note_text), comment, TRUE)
    ELSE IF Head(note_text) = "Comment:"
         THEN <<"Comment:", " ">> \o comment
              \o ReplaceComments(Tail(note_text), comment, TRUE)
    ELSE <<Head(note_text)>> \o ReplaceComments(Tail(note_text), comment, FALSE)

\* the note text _process_document leaves (lines 1500-1516)
WithComment(note_text, comment) ==
    IF Contains(<<"Comment:">>, note_text)
    THEN ReplaceComments(note_text, comment, FALSE)
    ELSE IF note_text # <<>> THEN note_text \o <<"\n", "Comment:", " ">> \o comment
    ELSE <<"Comment:", " ">> \o comment

\* the note text _on_document_processed leaves (lines 729-738)
WithCoTComment(note_text, comment) ==
    IF note_text # <<>>
    THEN note_text \o <<"\n", "CoT ", "Comment:", " ">> \o comment
    ELSE <<"CoT ", "Comment:", " ">> \o comment

\* the loop "for match_key in matched_keys" of _process_document
RECURSIVE ApplyMatched(_, _, _, _)
ApplyMatched(entries, matched_keys, n, comment) ==
    IF n > Len(matched_keys) THEN entries
    ELSE LET i == FirstWithKey(entries, matched_keys[n]) IN
         ApplyMatched(
             IF i = 0 THEN entries
             ELSE [entries EXCEPT
                      ![i].item.note_text = WithComment(@, comment),
                      ![i].item.has_document_match = TRUE],
             matched_keys, n + 1, comment)

\* the updates a document can be matched to: match_content_with_mxliff
\* emits keys of items that have a key and a source text; the documents
\* explored match records of the file, not missing-line placeholders, and
\* no key twice
MatchedUpdates(entries) ==
    LET keys == {entries[i].item.key : i \in {j \in ItemRows(entries) :
                     /\ entries[j].item.key # <<>>
                     /\ entries[j].item.source_text # <<>>
                     /\ ~entries[j].item.is_missing_line}}
        updates == [key : keys, comment : {<<"c">>}]
    IN  UNION {{u \in [1..n -> updates] :
                   \A i, j \in 1..n : i # j => u[i].key # u[j].key} :
               n \in 0..MaxUpdates}

\* _process_document (lines 1437-1566): the loop that applies the comment
\* stands behind the loop over the updates, so it runs once, with the key
\* and the comment of the last update; without updates it raises
\* (matched_keys is unbound) and the handler reports the error
ProcessedData(entries, updates) ==
    IF updates = <<>> THEN entries
    ELSE LET key == updates[Len(updates)].key
             comment == updates[Len(updates)].comment
             matched_keys == IF EndsWithF(key)
                             THEN <<key, SubSeq(key, 1, Len(key) - 1)>>
                             ELSE <<key, key \o <<".F">>>>
         IN  ApplyMatched(entries, matched_keys, 1, comment)

\* _process_document with the updates of the document
ProcessDocument(updates) ==
    /\ Loaded
    /\ data' = ProcessedData(data, updates)
    /\ UNCHANGED <<xml, recs, out, intLimit, pc>>

\* some note of the entries holds a CoT comment
HasCoTComment(entries) ==
    \E n \in ItemRows(entries) : Contains(<<"CoT ">>, entries[n].item.note_text)

\* the loop over the updates of _on_document_processed (lines 716-744)
RECURSIVE ApplyUpdates(_, _, _)
ApplyUpdates(entries, updates, n) ==
    IF n > Len(updates) THEN entries
    ELSE LET i == FirstWithKey(entries, updates[n].key) IN
         ApplyUpdates(
             IF i = 0 THEN entries
             ELSE [entries EXCEPT
                      ![i].item.note_text = WithCoTComment(@, updates[n].comment)],
             updates, n + 1)

\* _on_document_processed(result) for a successful result; a session has
\* one document processed by the worker
OnDocumentProcessed(updates) ==
    /\ Loaded
    /\ ~HasCoTComment(data)
    /\ data' = ApplyUpdates(data, updates, 1)
    /\ UNCHANGED <<xml, recs, out, intLimit, pc>>

\* _process_export: update_xml_content over the loaded text and the display
\* entries; the text returned is written to the chosen file
Export(order) ==
    /\ Loaded
    /\ out' = update_xml_content(xml, data, order)
    /\ pc' = "exported"
    /\ UNCHANGED <<xml, data, recs, intLimit>>

Next ==
    \/ OpenFile
    \/ \E row \in 1..Len(data) :
           \E new_text \in {<<"b">>, data[row].item.original_target_text} :
               OnCellChanged(row, new_text)
    \/ \E updates \in MatchedUpdates(data) : ProcessDocument(updates)
    \/ \E updates \in MatchedUpdates(data) : OnDocumentProcessed(updates)
    \/ \E order \in Orders(MissingKeys(xml, data)) : Export(order)

Spec == Init /\ [][Next]_vars

----------------------------------------------------------------------------
(* The trans-units of a text as the specification describes them, found    *)
(* token by token: used to state the claims, not by the model of the code  *)

\* the key of the context-group a group carries at its own level, looked up
\* from position p of the group on; <<>> if it has none
RECURSIVE GroupLevelKey(_, _, _)
GroupLevelKey(text, p, inUnit) ==
    IF p > Len(text) \/ text[p].t = "/group" THEN <<>>
    ELSE IF text[p].t = "trans-unit" THEN GroupLevelKey(text, p + 1, TRUE)
    ELSE IF text[p].t = "/trans-unit" THEN GroupLevelKey(text, p + 1, FALSE)
    ELSE IF text[p].t = "x-key" /\ ~inUnit THEN Strip(text[p].v)
    ELSE GroupLevelKey(text, p + 1, inUnit)

\* first position in o..c of a token of the kind, 0 if none
PositionIn(text, kind, o, c) ==
    LET p == FindFrom(text, kind, o) IN IF p = 0 \/ p > c THEN 0 ELSE p

\* the trans-units of the text from position p on, in document order: the
\* positions of the open tag, the close tag and the target element (0 if
\* none), whether the unit lies in a group, and the key it resolves to: the
\* x-key of its own context-group, else the x-key of the group's
RECURSIVE UnitsFrom(_, _, _, _)
UnitsFrom(text, p, inGroup, gkey) ==
    IF p > Len(text) THEN <<>>
    ELSE IF text[p].t = "group"
         THEN UnitsFrom(text, p + 1, TRUE, GroupLevelKey(text, p + 1, FALSE))
    ELSE IF text[p].t = "/group" THEN UnitsFrom(text, p + 1, FALSE, <<>>)
    ELSE IF text[p].t = "trans-unit"
         THEN LET c == FindFrom(text, "/trans-unit", p + 1) IN
              IF c = 0 THEN <<>>
              ELSE LET k == PositionIn(text, "x-key", p, c)
                       own == IF k = 0 THEN <<>> ELSE Strip(text[k].v)
                   IN  <<[open    |-> p,
                          close   |-> c,
                          target  |-> PositionIn(text, "target", p, c),
                          inGroup |-> inGroup,
                          key     |-> IF own # <<>> THEN own ELSE gkey]>>
                       \o UnitsFrom(text, c + 1, inGroup, gkey)
    ELSE UnitsFrom(text, p + 1, inGroup, gkey)

UnitsOf(text) == UnitsFrom(text, 1, FALSE, <<>>)

GroupedUnitsOf(text) == SelectSeq(UnitsOf(text), LAMBDA u : u.inGroup)

\* the items of a list of display entries
ItemsOf(entries) ==
    LET items == SelectSeq(entries, LAMBDA d : ~d.is_header /\ d.has_item)
    IN  [i \in 1..Len(items) |-> items[i].item]

IsChanged(item) == item.key # <<>> /\ item.target_text # item.original_target_text

\* the keys whose record has been edited, and the new text of such a key
ChangedKeys(entries) ==
    {ItemsOf(entries)[i].key : i \in {j \in 1..Len(ItemsOf(entries)) :
                                         IsChanged(ItemsOf(entries)[j])}}

\* the records of a key do not disagree on the new text
EditsAgree(entries) ==
    \A i, j \in 1..Len(ItemsOf(entries)) :
        LET a == ItemsOf(entries)[i]
            b == ItemsOf(entries)[j]
        IN  IsChanged(a) /\ a.key = b.key => b.target_text = a.target_text

NewTextOf(entries, key) ==
    LET items == ItemsOf(entries)
        i == CHOOSE j \in 1..Len(items) : IsChanged(items[j]) /\ items[j].key = key
    IN  items[i].target_text

Returned == pc = "patched" /\ out.status # "ValueError"

----------------------------------------------------------------------------
(* Claims about update_xml_content, checked under SpecPatch *)

\* C1: round-trip identity: for a non-empty text and a non-empty record list
\* in which every record with a non-empty key has target_text equal to
\* original_target_text, update_xml_content returns the text unchanged.
C1_RoundTripIdentity ==
    (/\ pc = "patched"
     /\ xml # <<>>
     /\ data # <<>>
     /\ ChangedKeys(data) = {})
    => Returned /\ out.text = xml

\* an unedited keyed record of a text with padded target text, next to
\* nothing else that was edited
C1_Witness ==
    /\ pc = "patched"
    /\ ChangedKeys(data) = {}
    /\ \E i \in 1..Len(ItemsOf(data)) : ItemsOf(data)[i].key # <<>>
    /\ \E p \in 1..Len(xml) : xml[p].t = "target" /\ Strip(xml[p].v) # xml[p].v
    /\ out.text = xml

\* the text differs from the original at most at the positions in `at`
SameExceptAt(text, original, at) ==
    /\ Len(text) = Len(original)
    /\ \A p \in 1..Len(original) : p \notin at => text[p] = original[p]

\* C2 as claimed: when two trans-units of the groups have the same source and
\* target text but resolve to distinct keys, and only the records of the first
\* key were edited, the returned text differs from the original in exactly
\* one target: the first unit holds the new text, the other the original one.
C2_TargetedMutation ==
    (/\ Returned
     /\ xml # <<>>
     /\ EditsAgree(data))
    => \A i, j \in 1..Len(GroupedUnitsOf(xml)) :
           LET u == GroupedUnitsOf(xml)[i]
               w == GroupedUnitsOf(xml)[j]
           IN  (/\ u.key # <<>> /\ w.key # <<>> /\ u.key # w.key
                /\ u.target # 0 /\ w.target # 0
                /\ xml[u.target] = xml[w.target]
                /\ ChangedKeys(data) = {u.key}
                /\ NewTextOf(data, u.key) # xml[u.target].v)
               => /\ SameExceptAt(out.text, xml, {u.target})
                  /\ out.text[u.target] = Target(NewTextOf(data, u.key))

\* C3 as claimed: the returned text differs from the input only in the target
\* element of trans-units whose resolved key is in the changed set, where the
\* new text of that key stands; every other token is identical to the input.
C3_OnlyChangedTargetsDiffer ==
    Returned /\ EditsAgree(data) =>
        /\ Len(out.text) = Len(xml)
        /\ \A p \in 1..Len(xml) :
               out.text[p] # xml[p] =>
                   \E n \in 1..Len(UnitsOf(xml)) :
                       LET u == UnitsOf(xml)[n] IN
                       /\ u.target = p
                       /\ u.key \in ChangedKeys(data)
                       /\ out.text[p] = Target(NewTextOf(data, u.key))

\* C4: the returned text never contains a temporary marker, after any
\* combination of first-pass and second-pass replacements.
C4_NoMarkerInOutput ==
    Returned => \A p \in 1..Len(out.text) : ~IsMarker(out.text[p])

\* a call that replaced one trans-unit in the first pass and one in the second
C4_Witness ==
    /\ Returned
    /\ out.first_pass_keys # {}
    /\ out.updated_keys \ out.first_pass_keys # {}

\* C5: update_xml_content fails with ValueError, returning no text, whenever
\* the text is empty or the record list is empty.
C5_ValueErrorOnEmptyInput ==
    pc = "patched" /\ (xml = <<>> \/ data = <<>>)
        => out.status = "ValueError" /\ out.text = <<>>

\* the call with a text and no records
C5_Witness ==
    pc = "patched" /\ xml # <<>> /\ data = <<>> /\ out.status = "ValueError"

\* C6: when a changed key matches no trans-unit in either pass, the call
\* still returns text, the text carries the new target text of every changed
\* key that was resolved, and the unresolved keys are reported to the logger.
C6_UnresolvedKeysAreReported ==
    /\ pc = "patched" /\ xml # <<>> /\ data # <<>> => Returned
    /\ Returned /\ ChangedKeys(data) # {} /\ EditsAgree(data) =>
           /\ out.updated_keys \subseteq ChangedKeys(data)
           /\ \A k \in out.updated_keys :
                  \E p \in 1..Len(xml) :
                      /\ xml[p].t = "target"
                      /\ p <= Len(out.text)
                      /\ out.text[p] = Target(NewTextOf(data, k))
           /\ out.warned_count = Cardinality(ChangedKeys(data) \ out.updated_keys)
           /\ (out.warned_count <= LogListLimit
                   => out.warned = ChangedKeys(data) \ out.updated_keys)

\* a call that applied one changed key and reported another as not applied
C6_Witness ==
    /\ Returned
    /\ out.updated_keys # {}
    /\ out.warned # {}
    /\ out.warned \cap out.updated_keys = {}

\* C7 as claimed: update_xml_content resolves the key of a trans-unit as
\* parse_xml does, so for the records parse_xml extracted from the text, the
\* trans-unit of every record whose target_text was changed holds the new
\* text, and the trans-units of records whose key was not changed hold their
\* original text.
C7_PatchFollowsExtraction ==
    (/\ Returned
     /\ xml # <<>>
     /\ EditsAgree(data)
     /\ Len(ItemsOf(data)) >= Len(GroupedUnitsOf(xml)))
    => \A i \in 1..Len(GroupedUnitsOf(xml)) :
           LET u == GroupedUnitsOf(xml)[i]
               r == ItemsOf(data)[i]
           IN  u.target # 0 =>
                   out.text[u.target] =
                       IF r.key \in ChangedKeys(data)
                       THEN Target(NewTextOf(data, r.key))
                       ELSE xml[u.target]

----------------------------------------------------------------------------
(* Claims about the application, checked under Spec *)

\* the target text parse_xml extracts for the record of the index: the
\* stripped inner text of the target element of that trans-unit
ExtractedTarget(text, units, index) ==
    LET u == units[index + 1] IN
    IF u.target = 0 THEN <<>> ELSE Strip(text[u.target].v)

\* C8: after parse_xml has created a record, no later operation (a cell
\* edit, the application of matched comments, the synthesis of missing-line
\* placeholders, the export) changes its original_target_text: in every
\* reachable state it is the target text extracted at parse time.
C8_OriginalTargetTextIsKept ==
    pc \in {"loaded", "exported"} =>
        LET units == GroupedUnitsOf(xml) IN
        \A i \in ItemRows(data) :
            /\ data[i].item.index < Len(units)
            /\ data[i].item.original_target_text
                   = ExtractedTarget(xml, units, data[i].item.index)

\* an exported file with an edited record, an edited placeholder and a record
\* that took a comment
C8_Witness ==
    /\ pc = "exported"
    /\ out.status = "updated"
    /\ \E i \in ItemRows(data) :
           /\ ~data[i].item.is_missing_line
           /\ data[i].item.target_text # data[i].item.original_target_text
    /\ \E i \in ItemRows(data) :
           /\ data[i].item.is_missing_line
           /\ data[i].item.target_text = <<"b">>
    /\ \E i \in ItemRows(data) : data[i].item.has_document_match

----------------------------------------------------------------------------
(* Claims about parse_xml, checked under SpecParse *)

\* position in the text of the source element with the given inner text
SourcePosition(text, source_text) ==
    CHOOSE p \in 1..Len(text) : text[p].t = "source" /\ Strip(text[p].v) = source_text

\* C9: parse_xml returns the records in source-document order and the i-th
\* record (0-based) has index i, across groups, without gaps or repeats, also
\* when an earlier group raised part-way and was abandoned.
C9_IndexIsPosition ==
    pc = "parsed" =>
        /\ \A i \in 1..Len(recs.data) : recs.data[i].index = i - 1
        /\ \A i, j \in 1..Len(recs.data) :
               i < j => SourcePosition(xml, recs.data[i].source_text)
                            < SourcePosition(xml, recs.data[j].source_text)

\* a group raised after one of its trans-units was recorded, and a later
\* group was recorded after it
C9_Witness ==
    /\ pc = "parsed"
    /\ recs.errors = <<0>>
    /\ Len(recs.data) = 2
    /\ recs.data[1].group_id = <<"g", "1">>
    /\ recs.data[2].group_id = <<"g", "2">>
    /\ recs.data[2].index = 1

\* C10 as claimed: the number of records equals the number of complete
\* trans-unit spans found in the input text.
C10_CountsEveryUnitOfTheText ==
    pc = "parsed" => Len(recs.data) = Len(FindAll(xml, "trans-unit"))

\* the complete trans-unit spans (an open tag to the first close tag after
\* it) that lie inside a group, counted token by token, leaving out the
\* groups (numbered from 0) listed in `skipped`
RECURSIVE UnitsInGroups(_, _, _, _, _, _)
UnitsInGroups(text, p, inGroup, inUnit, groups, skipped) ==
    IF p > Len(text) THEN 0
    ELSE IF text[p].t = "group" /\ ~inGroup
         THEN UnitsInGroups(text, p + 1, TRUE, FALSE, groups + 1, skipped)
    ELSE IF text[p].t = "/group"
         THEN UnitsInGroups(text, p + 1, FALSE, FALSE, groups, skipped)
    ELSE IF text[p].t = "trans-unit" /\ inGroup
         THEN UnitsInGroups(text, p + 1, inGroup, TRUE, groups, skipped)
    ELSE IF text[p].t = "/trans-unit" /\ inUnit
         THEN (IF (groups - 1) \in skipped THEN 0 ELSE 1)
              + UnitsInGroups(text, p + 1, inGroup, FALSE, groups, skipped)
    ELSE UnitsInGroups(text, p + 1, inGroup, inUnit, groups, skipped)

\* C10, amended: the number of records equals the number of trans-unit spans
\* found inside the group spans, when no group's processing raises; a group
\* whose processing raises contributes the trans-units recorded before the
\* failure; a trans-unit outside every group yields no record; a text without
\* groups or trans-units yields the empty list, not an error.
C10_CountsUnitsOfGroups ==
    pc = "parsed" =>
        LET failed == {recs.errors[n] : n \in 1..Len(recs.errors)} IN
        /\ Len(recs.data) <= UnitsInGroups(xml, 1, FALSE, FALSE, 0, {})
        /\ Len(recs.data) >= UnitsInGroups(xml, 1, FALSE, FALSE, 0, failed)
        /\ (FindAll(xml, "group") = <<>> => recs.data = <<>> /\ recs.errors = <<>>)

\* a text with a trans-unit outside every group next to a recorded one
C10_Witness ==
    /\ pc = "parsed"
    /\ Len(recs.data) = 1
    /\ Len(FindAll(xml, "trans-unit")) = 2
    /\ recs.errors = <<>>

\* the open tag of the trans-unit that holds position p
UnitOpenBefore(text, p) ==
    CHOOSE o \in 1..p :
        text[o].t = "trans-unit" /\ \A q \in (o + 1)..p : text[q].t # "trans-unit"

\* the stripped text of the context of the kind between o and c, <<>> if none
OwnContext(text, kind, o, c) ==
    LET k == PositionIn(text, kind, o, c) IN
    IF k = 0 THEN <<>> ELSE Strip(text[k].v)

\* C11: when a trans-unit carries its own context-group, the record's key and
\* note_text come only from that block: a unit-level block without an x-key
\* (or without an x-key-note) context does not inherit the group-level key
\* (or note).
C11_UnitContextOverridesEntirely ==
    pc = "parsed" =>
        \A i \in 1..Len(recs.data) :
            LET p == SourcePosition(xml, recs.data[i].source_text)
                o == UnitOpenBefore(xml, p)
                c == FindFrom(xml, "/trans-unit", p)
            IN  PositionIn(xml, "context-group", o, c) # 0 =>
                    /\ recs.data[i].key = OwnContext(xml, "x-key", o, c)
                    /\ recs.data[i].note_text = OwnContext(xml, "x-key-note", o, c)

\* the open tag of the group that holds position p
GroupOpenBefore(text, p) ==
    CHOOSE o \in 1..p :
        text[o].t = "group" /\ \A q \in (o + 1)..p : text[q].t # "group"

\* the record's key is carried by an annotation that governs its trans-unit:
\* the x-key of the unit's own context-group or the x-key of the context-group
\* its group carries at group level
KeyIsAnnotated(text, record) ==
    LET p == SourcePosition(text, record.source_text)
        o == UnitOpenBefore(text, p)
        c == FindFrom(text, "/trans-unit", p)
    IN  \/ record.key = OwnContext(text, "x-key", o, c)
        \/ record.key = GroupLevelKey(text, GroupOpenBefore(text, p) + 1, FALSE)

\* C12: parse_xml does not invent duplicate keys: two records get the same
\* non-empty key only if both are governed by an annotation carrying it (the
\* shared group-level context block, or their own unit-level blocks); a key
\* declared only inside one trans-unit's own context-group is never assigned
\* to another trans-unit of the group that has no context-group of its own.
C12_NoInventedDuplicateKeys ==
    pc = "parsed" =>
        \A i, j \in 1..Len(recs.data) :
            (i # j /\ recs.data[i].key # <<>> /\ recs.data[i].key = recs.data[j].key)
                => KeyIsAnnotated(xml, recs.data[i]) /\ KeyIsAnnotated(xml, recs.data[j])

\* the records extracted from the group span (every group of the explored
\* texts has an id of its own)
RecordsOfGroup(records, group) ==
    SelectSeq(records, LAMBDA r : r.group_id = group[1].v)

\* the group holds a trans-unit open tag without a close tag of its own
HasUnterminatedUnit(group) ==
    \E o \in 1..Len(group) :
        /\ group[o].t = "trans-unit"
        /\ LET c == FindFrom(group, "/trans-unit", o + 1)
               next_open == FindFrom(group, "trans-unit", o + 1)
           IN  c = 0 \/ (next_open # 0 /\ next_open < c)

\* C13: partial-failure tolerance of parse_xml: if processing one group
\* fails (for example a group with an unterminated trans-unit tag), the
\* failure is logged, that group's trans-units contribute no records,
\* extraction continues with the next group, and the records of every
\* well-formed group are returned.
C13_FailedGroupIsSkipped ==
    pc = "parsed" =>
        LET groups == FindAll(xml, "group")
            failed == {recs.errors[n] : n \in 1..Len(recs.errors)}
        IN  \A n \in 1..Len(groups) :
                /\ HasUnterminatedUnit(groups[n]) => (n - 1) \in failed
                /\ IF (n - 1) \in failed
                   THEN RecordsOfGroup(recs.data, groups[n]) = <<>>
                   ELSE Len(RecordsOfGroup(recs.data, groups[n]))
                            = Len(FindAll(groups[n], "trans-unit"))

----------------------------------------------------------------------------
(* DocumentParser._clean_text_for_comparison (document_parser.py).  A text  *)
(* is a sequence of characters, each named by a lexeme: "a" an ordinary     *)
(* letter, " " the space, TAB (a C0 control that is whitespace), NUL (a C0  *)
(* control that is not), DEL, NBSP, the straight quotes SQ and DQ, the      *)
(* curly quotes U+2018 and U+201D, and the low-9 quote U+201A.              *)

MaxTextLen == 3

Characters == {"a", " ", "TAB", "NUL", "DEL", "NBSP", "SQ", "DQ",
               "U+2018", "U+201D", "U+201A"}

\* the argument None
None == <<"None">>

\* str.isspace(c), which str.strip() and the pattern \s go by
IsSpace(c) == c \in {" ", "TAB", "NBSP"}

RECURSIVE LStripSpace(_)
LStripSpace(s) ==
    IF s # <<>> /\ IsSpace(Head(s)) THEN LStripSpace(Tail(s)) ELSE s

RECURSIVE RStripSpace(_)
RStripSpace(s) ==
    IF s # <<>> /\ IsSpace(s[Len(s)])
    THEN RStripSpace(SubSeq(s, 1, Len(s) - 1)) ELSE s

\* text.strip()
StripSpace(s) == RStripSpace(LStripSpace(s))

\* the character class of line 694 as the interpreter reads it: the two
\* adjacent literals r'[' and '\u201a\u201b""\u201e\u201f\x00-\x1F\x7F]'
InQuoteClass(c) == c \in {"U+201A", "DQ", "TAB", "NUL", "DEL"}

\* the replacement of lines 694-699: the dictionary holds the key '"' and a
\* key made of the text between the two triple quotes of lines 695-696, which
\* no single character equals; every other match becomes a space
QuoteReplacement(c) == IF c = "DQ" THEN "DQ" ELSE " "

\* re.sub(<class>, <replacement>, text)
SubQuotes(text) ==
    [i \in 1..Len(text) |->
        IF InQuoteClass(text[i]) THEN QuoteReplacement(text[i]) ELSE text[i]]

\* re.sub(r'\s+', ' ', text)
RECURSIVE CollapseSpace(_)
CollapseSpace(text) ==
    IF text = <<>> THEN <<>>
    ELSE IF IsSpace(Head(text))
         THEN <<" ">> \o CollapseSpace(LStripSpace(text))
         ELSE <<Head(text)>> \o CollapseSpace(Tail(text))

\* a faulty variant: the whitespace is collapsed but the result not stripped
NormalizeSpace_NoStrip(text) == CollapseSpace(text)

\* re.sub(r'\s+', ' ', text).strip() (line 702)
NormalizeSpace(text) == StripSpace(CollapseSpace(text))

\* DocumentParser._clean_text_for_comparison(text) (lines 671-707)
clean_text_for_comparison(text) ==
    IF text = None THEN <<>>
    ELSE LET stripped == StripSpace(text) IN
         IF stripped = <<>> THEN <<>>
         ELSE NormalizeSpace(SubQuotes(stripped))

\* the texts of at most n characters
RECURSIVE TextsUpTo(_)
TextsUpTo(n) ==
    IF n = 0 THEN {<<>>}
    ELSE LET shorter == TextsUpTo(n - 1) IN
         shorter \cup {Append(t, c) : t \in shorter, c \in Characters}

InitClean ==
    /\ xml \in TextsUpTo(MaxTextLen) \cup {None}
    /\ data = <<>>
    /\ recs = [data |-> <<>>, errors |-> <<>>]
    /\ out = NoOutcome
    /\ intLimit = FALSE
    /\ pc = "input"

\* one call of _clean_text_for_comparison on the input text
CleanText ==
    /\ pc = "input"
    /\ out' = [NoOutcome EXCEPT !.status = "cleaned",
                                !.text = clean_text_for_comparison(xml)]
    /\ pc' = "cleaned"
    /\ UNCHANGED <<xml, data, recs, intLimit>>

\* a second call, on the text the first call returned
CleanAgain ==
    /\ pc = "cleaned"
    /\ out' = [out EXCEPT !.text = clean_text_for_comparison(out.text)]
    /\ pc' = "recleaned"
    /\ UNCHANGED <<xml, data, recs, intLimit>>

NextClean == CleanText \/ CleanAgain

SpecClean == InitClean /\ [][NextClean]_vars

----------------------------------------------------------------------------
(* Claims about _clean_text_for_comparison, checked under SpecClean *)

\* C14: normalization is idempotent: cleaning a text that
\* _clean_text_for_comparison returned gives that text back.
C14_NormalizationIsIdempotent ==
    [][pc = "cleaned" => out'.text = out.text]_vars

\* a text that the first call changed has been cleaned a second time
C14_Witness ==
    /\ pc = "recleaned"
    /\ xml # None
    /\ out.text # xml
    /\ out.text # <<>>

\* the number of characters of the text that belong to the set
CountOf(text, chars) == Cardinality({i \in 1..Len(text) : text[i] \in chars})

\* C15: the output of _clean_text_for_comparison is in canonical form: every
\* curly quote variant has been replaced by its straight ASCII equivalent,
\* every C0 control character and DEL by a space, every whitespace run is a
\* single ASCII space, there is no leading or trailing whitespace, and None
\* or the empty text yields the empty text.
C15_OutputIsCanonical ==
    pc = "cleaned" =>
        LET text == IF xml = None THEN <<>> ELSE xml IN
        /\ CountOf(out.text, {"U+2018", "U+201D", "U+201A"}) = 0
        /\ CountOf(out.text, {"SQ"}) = CountOf(text, {"SQ", "U+2018", "U+201A"})
        /\ CountOf(out.text, {"DQ"}) = CountOf(text, {"DQ", "U+201D"})
        /\ CountOf(out.text, {"TAB", "NUL", "DEL", "NBSP"}) = 0
        /\ \A i \in 1..(Len(out.text) - 1) :
               ~(out.text[i] = " " /\ out.text[i + 1] = " ")
        /\ out.text = StripSpace(out.text)
        /\ (text = <<>> => out.text = <<>>)

----------------------------------------------------------------------------
(* SpecMainKey: extract_main_key applied to the keys of at most MaxKeyLen   *)
(* characters                                                               *)

MaxKeyLen == 5

KeyCharacters == {"Q", "/", "."}

RECURSIVE KeysUpTo(_)
KeysUpTo(n) ==
    IF n = 0 THEN {<<>>}
    ELSE LET shorter == KeysUpTo(n - 1) IN
         shorter \cup {Append(k, c) : k \in shorter, c \in KeyCharacters}

InitMainKey ==
    /\ xml \in KeysUpTo(MaxKeyLen)
    /\ data = <<>>
    /\ recs = [data |-> <<>>, errors |-> <<>>]
    /\ out = NoOutcome
    /\ intLimit = FALSE
    /\ pc = "input"

\* one call of extract_main_key
MainKey ==
    /\ pc = "input"
    /\ out' = [NoOutcome EXCEPT !.status = "main_key",
                                !.text = extract_main_key(xml)]
    /\ pc' = "keyed"
    /\ UNCHANGED <<xml, data, recs, intLimit>>

NextMainKey == MainKey

SpecMainKey == InitMainKey /\ [][NextMainKey]_vars

\* the positions of the character c in the key k
PositionsOf(k, c) == {i \in 1..Len(k) : k[i] = c}

\* C16: extract_main_key(k) returns the part of k before the first '/', if k
\* contains '/'; otherwise the part before the last '.', if k contains '.';
\* otherwise k itself; and the empty string for an empty key.
C16_MainKeyIsPrefix ==
    pc = "keyed" =>
        LET slashes == PositionsOf(xml, "/")
            dots == PositionsOf(xml, ".")
            cut == Len(out.text) + 1
        IN  /\ out.text = SubSeq(xml, 1, Len(out.text))
            /\ slashes # {} => cut \in slashes /\ \A i \in slashes : cut <= i
            /\ (slashes = {} /\ dots # {}) => cut \in dots /\ \A i \in dots : i <= cut
            /\ (slashes = {} /\ dots = {}) => out.text = xml

\* a key without '/' and with two periods, cut at the second
C16_Witness ==
    /\ pc = "keyed"
    /\ PositionsOf(xml, "/") = {}
    /\ Cardinality(PositionsOf(xml, ".")) = 2
    /\ Len(out.text) >= 3

----------------------------------------------------------------------------
(* SpecSortKeys: sorted(keys, key=natural_sort_key) applied to lists of at  *)
(* most MaxKeys distinct main keys                                          *)

MaxKeys == 3

Main_Q1_2  == <<"Main", "_", "Q", "1", "_", "2">>
Main_Q1_10 == <<"Main", "_", "Q", "1", "_", "1", "0">>
Side_Q2_05 == <<"Side", "_", "Q", "2", "_", "0", "5">>

SortableKeys ==
    {Main_Q1_2, Main_Q1_10, Side_Q2_05,
     <<"Main">>, <<"Main", "1", "0">>, <<"Side">>, <<"Side", "_", "Q", "2">>,
     <<"Q", "9">>}

\* the lists of at most n distinct keys
RECURSIVE KeyListsUpTo(_)
KeyListsUpTo(n) ==
    IF n = 0 THEN {<<>>}
    ELSE LET shorter == KeyListsUpTo(n - 1) IN
         shorter \cup {Append(l, k) : l \in shorter, k \in SortableKeys}

DistinctKeyLists(most) ==
    {l \in KeyListsUpTo(most) : \A i, j \in 1..Len(l) : i # j => l[i] # l[j]}

InitSortKeys ==
    /\ xml \in DistinctKeyLists(MaxKeys)
    /\ data = <<>>
    /\ recs = [data |-> <<>>, errors |-> <<>>]
    /\ out = NoOutcome
    /\ intLimit = FALSE
    /\ pc = "input"

\* sorted(grouped_data.keys(), key=natural_sort_key)
SortKeys ==
    /\ pc = "input"
    /\ out' = [NoOutcome EXCEPT !.status = "sorted", !.text = SortedKeys(xml)]
    /\ pc' = "sorted"
    /\ UNCHANGED <<xml, data, recs, intLimit>>

NextSortKeys == SortKeys

SpecSortKeys == InitSortKeys /\ [][NextSortKeys]_vars

\* the integers embedded in a key, as the claim reads them: the value of
\* every maximal run of decimal digits, left to right
DigitValue(c) == CHOOSE d \in 0..9 : Str(d) = c

RECURSIVE RunValue(_, _, _)
RunValue(k, i, j) ==
    IF j < i THEN 0 ELSE RunValue(k, i, j - 1) * 10 + DigitValue(k[j])

RunStarts(k) ==
    {i \in 1..Len(k) : IsDigits(k[i]) /\ (i = 1 \/ ~IsDigits(k[i - 1]))}

RunEnd(k, i) ==
    CHOOSE j \in i..Len(k) :
        /\ \A q \in i..j : IsDigits(k[q])
        /\ (j = Len(k) \/ ~IsDigits(k[j + 1]))

EmbeddedIntegers(k) ==
    [n \in 1..Cardinality(RunStarts(k)) |->
        LET i == CHOOSE q \in RunStarts(k) :
                     Cardinality({r \in RunStarts(k) : r < q}) = n - 1
        IN  RunValue(k, i, RunEnd(k, i))]

\* a sorts strictly before b in the standard tuple ordering
TupleBefore(a, b) ==
    \E n \in 0..Len(a) :
        /\ n <= Len(b)
        /\ \A q \in 1..n : a[q] = b[q]
        /\ \/ n = Len(a) /\ n < Len(b)
           \/ n < Len(a) /\ n < Len(b) /\ a[n + 1] < b[n + 1]

HasMain(k) == \E i \in 1..Len(k) : k[i] = "Main"

\* the claimed order: 'Main' keys first, then by the embedded integers
ClaimedBefore(a, b) ==
    \/ HasMain(a) /\ ~HasMain(b)
    \/ HasMain(a) = HasMain(b) /\ TupleBefore(EmbeddedIntegers(a), EmbeddedIntegers(b))

\* C17: sorting main keys by natural_sort_key places every key containing
\* 'Main' before every key that does not, and within each of the two buckets
\* orders the keys by the sequence of the integers embedded in the key,
\* compared as integers with the standard tuple ordering.
C17_MainFirstThenByIntegers ==
    pc = "sorted" =>
        /\ Len(out.text) = Len(xml)
        /\ {out.text[i] : i \in 1..Len(out.text)} = {xml[i] : i \in 1..Len(xml)}
        /\ \A i, j \in 1..Len(out.text) :
               ClaimedBefore(out.text[i], out.text[j]) => i < j

\* the keys of the claim's example, handed over in the opposite order
C17_Witness ==
    /\ pc = "sorted"
    /\ xml = <<Side_Q2_05, Main_Q1_10, Main_Q1_2>>
    /\ out.text = <<Main_Q1_2, Main_Q1_10, Side_Q2_05>>

----------------------------------------------------------------------------
(* SpecGaps: a file of at most MaxGapUnits trans-units, each in a group of  *)
(* its own with a key and a note of its own, is opened                      *)

MaxGapUnits == 3
MaxLine == 4

\* the key Q/Line_<n>
QLine(n) == <<"Q", "/", "Line_", Str(n)>>

\* a key without a line number, whose record falls back to its order value
QNoLine == <<"Q", "/", "x">>

OrderNote == <<"Order:", " ", "2">>

\* the (key, note) pairs of the trans-units
GapUnits ==
    {[key |-> QLine(n), note |-> note] : n \in 1..MaxLine, note \in {<<>>, OrderNote}}
    \cup {[key |-> QNoLine, note |-> OrderNote], [key |-> ML2, note |-> <<>>]}

RECURSIVE GapGroups(_, _)
GapGroups(units, i) ==
    IF i > Len(units) THEN <<>>
    ELSE <<GroupOpen(<<"g", Str(i)>>), UnitOpen(<<Str(i)>>, <<>>)>>
         \o ContextGroup(units[i].key, units[i].note)
         \o <<Source(<<"s", Str(i)>>), Target(<<"a", Str(i)>>), UnitClose, GroupClose>>
         \o GapGroups(units, i + 1)

GapText(units) == <<Comment(<<"header">>)>> \o GapGroups(units, 1)

GapTexts(most) ==
    UNION {{GapText(units) : units \in [1..n -> GapUnits]} : n \in 1..most}

InitGaps ==
    /\ xml \in GapTexts(MaxGapUnits)
    /\ data = <<>>
    /\ recs = [data |-> <<>>, errors |-> <<>>]
    /\ out = NoOutcome
    /\ intLimit = FALSE
    /\ pc = "idle"

NextGaps == OpenFile

SpecGaps == InitGaps /\ [][NextGaps]_vars

\* the line number of an item as the claim reads it: the number after
\* 'Line_' in its key, else its order value
LineOf(item) ==
    LET labels == PositionsOf(item.key, "Line_") IN
    IF labels # {} THEN DigitValue(item.key[(CHOOSE i \in labels : TRUE) + 1])
    ELSE item.order_value

HeaderRows(entries) == {h \in 1..Len(entries) : entries[h].is_header}

\* the rows of the group under the header h that hold a record of the file
RealRows(entries, h) ==
    {r \in (h + 1)..(h + entries[h].item_count) : ~entries[r].item.is_missing_line}

\* the last row in `rows` before r, else the header row h
RowBefore(rows, h, r) ==
    IF {q \in rows : q < r} = {} THEN h
    ELSE CHOOSE p \in rows : p < r /\ \A q \in rows : q < r => q <= p

\* C18: missing-line gap detection: within each main-key group, walking its
\* records in (order_value, index) order, exactly one placeholder is
\* synthesized for each integer that lies in a gap between consecutive line
\* numbers, counting from 1, and none when the line numbers are 1..n.
C18_OnePlaceholderPerGapLine ==
    pc = "loaded" =>
        \A h \in HeaderRows(data) :
            LET real == RealRows(data, h) IN
            /\ \A r \in real :
                   LET p == RowBefore(real, h, r)
                       from == IF p = h THEN 1 ELSE LineOf(data[p].item) + 1
                       to == LineOf(data[r].item) - 1
                   IN  /\ r - p - 1 = (IF from <= to THEN to - from + 1 ELSE 0)
                       /\ \A q \in (p + 1)..(r - 1) :
                              /\ data[q].item.is_missing_line
                              /\ data[q].item.missing_line_number = from + (q - p - 1)
                       /\ p # h =>
                              \/ data[p].item.order_value < data[r].item.order_value
                              \/ /\ data[p].item.order_value = data[r].item.order_value
                                 /\ data[p].item.index < data[r].item.index
            /\ data[h].item_count > 0 /\ (h + data[h].item_count) \in real
            /\ Cardinality(real)
                   = Cardinality({i \in 1..Len(recs.data) :
                                     MainKeyOf(recs.data[i]) = data[h].main_key})

\* the group of the claim's example: line numbers 1, 2 and 4, and one
\* placeholder, for line 3
C18_Witness ==
    /\ pc = "loaded"
    /\ Len(data) = 5
    /\ \A r \in {2, 3, 5} : ~data[r].item.is_missing_line
    /\ LineOf(data[2].item) = 1 /\ LineOf(data[3].item) = 2 /\ LineOf(data[5].item) = 4
    /\ data[4].item.is_missing_line /\ data[4].item.missing_line_number = 3

----------------------------------------------------------------------------
(* DocumentParser.match_content_with_mxliff (document_parser.py 737-850).   *)
(* A cell or a source text is a sequence of characters; a table is          *)
(* [has_conversation_column, columns, rows], a row a sequence of cells.     *)

MAX_MATCHES == 500

\* str(col).lower(), word by word
LowerWord(w) ==
    IF w = "Source" THEN "source"
    ELSE IF w = "Comment" THEN "comment"
    ELSE IF w = "COTeam" THEN "coteam"
    ELSE w

Lower(col) == [i \in 1..Len(col) |-> LowerWord(col[i])]

\* preprocess_text(text) (lines 749-750)
preprocess_text(text) == clean_text_for_comparison(StripSpace(text))

\* mxliff_lookup[clean_source] = value: a dict keeps the position of a key
\* it already holds
PutLookup(lookup, clean_source, value) ==
    IF \E i \in 1..Len(lookup) : lookup[i].source = clean_source
    THEN [i \in 1..Len(lookup) |->
             IF lookup[i].source = clean_source
             THEN [source |-> clean_source, value |-> value] ELSE lookup[i]]
    ELSE Append(lookup, [source |-> clean_source, value |-> value])

\* the lookup of lines 753-764, as the list of its entries in dict order
RECURSIVE BuildLookup(_, _, _)
BuildLookup(mxliff_data, n, lookup) ==
    IF n > Len(mxliff_data) THEN lookup
    ELSE LET d == mxliff_data[n]
             source_text == StripSpace(d.item.source_text)
             clean_source == preprocess_text(source_text)
         IN  IF ~d.is_header /\ d.has_item /\ source_text # <<>>
                /\ Len(clean_source) >= 10
             THEN BuildLookup(mxliff_data, n + 1,
                      PutLookup(lookup, clean_source,
                                [key |-> d.item.key, original_text |-> source_text]))
             ELSE BuildLookup(mxliff_data, n + 1, lookup)

\* next((col for col in df.columns if word in str(col).lower()), None) as
\* the position of the column, 0 for None
FirstColumn(columns, word) ==
    LET found == {i \in 1..Len(columns) : Contains(<<word>>, Lower(columns[i]))}
    IN  IF found = {} THEN 0 ELSE CHOOSE i \in found : \A j \in found : i <= j

\* the number of characters a[i..] and b[j..] have in common at their start
RECURSIVE CommonPrefix(_, _, _, _)
CommonPrefix(a, b, i, j) ==
    IF i > Len(a) \/ j > Len(b) \/ a[i] # b[j] THEN 0
    ELSE 1 + CommonPrefix(a, b, i + 1, j + 1)

\* SequenceMatcher.find_longest_match without junk: the longest matching
\* block, of these the one that starts earliest in a, of these the one that
\* starts earliest in b
LongestMatch(a, b) ==
    LET size == [p \in (1..Len(a)) \X (1..Len(b)) |-> CommonPrefix(a, b, p[1], p[2])]
        best == CHOOSE p \in DOMAIN size :
                    \A q \in DOMAIN size :
                        \/ size[q] < size[p]
                        \/ size[q] = size[p] /\ p[1] < q[1]
                        \/ size[q] = size[p] /\ p[1] = q[1] /\ p[2] <= q[2]
    IN  [i |-> best[1], j |-> best[2], size |-> size[best]]

\* the total size of SequenceMatcher.get_matching_blocks()
RECURSIVE Matches(_, _)
Matches(a, b) ==
    IF a = <<>> \/ b = <<>> THEN 0
    ELSE LET m == LongestMatch(a, b) IN
         IF m.size = 0 THEN 0
         ELSE m.size
              + Matches(SubSeq(a, 1, m.i - 1), SubSeq(b, 1, m.j - 1))
              + Matches(SubSeq(a, m.i + m.size, Len(a)),
                        SubSeq(b, m.j + m.size, Len(b)))

\* SequenceMatcher(None, a, b).ratio() = 2.0 * matches / (len(a) + len(b)),
\* as the fraction <<numerator, denominator>>
Ratio(a, b) == <<2 * Matches(a, b), Len(a) + Len(b)>>

\* best_ratio = 0.8 (line 816)
Threshold == <<4, 5>>

\* a faulty variant: a ratio equal to the best one so far is taken as well
RatioGreater_OrEqual(r, best) == r[1] * best[2] >= best[1] * r[2]

\* ratio > best_ratio (line 830)
RatioGreater(r, best) == r[1] * best[2] > best[1] * r[2]

\* the loop of lines 818-832: st is [best_match, best_ratio, found]
RECURSIVE FuzzyLoop(_, _, _, _)
FuzzyLoop(clean_source, mxliff_lookup, n, st) ==
    IF n > Len(mxliff_lookup) THEN st
    ELSE LET mxliff_source == mxliff_lookup[n].source IN
         IF Len(clean_source) < 10 \/ Len(mxliff_source) < 10
         THEN FuzzyLoop(clean_source, mxliff_lookup, n + 1, st)
         ELSE IF Len(clean_source) - Len(mxliff_source) > 5
                 \/ Len(mxliff_source) - Len(clean_source) > 5
         THEN FuzzyLoop(clean_source, mxliff_lookup, n + 1, st)
         ELSE LET ratio == Ratio(clean_source, mxliff_source) IN
              IF RatioGreater(ratio, st.best_ratio)
              THEN FuzzyLoop(clean_source, mxliff_lookup, n + 1,
                             [found |-> TRUE, best_ratio |-> ratio,
                              best_match |-> mxliff_lookup[n].value])
              ELSE FuzzyLoop(clean_source, mxliff_lookup, n + 1, st)

NoMatch == [found |-> FALSE, best_ratio |-> Threshold,
            best_match |-> [key |-> <<>>, original_text |-> <<>>]]

\* a faulty variant: the lookup is never consulted for the text itself
ExactMatch_Never(clean_source, mxliff_lookup) == {}

\* clean_source in mxliff_lookup (line 803): the entries of that key
ExactMatch(clean_source, mxliff_lookup) ==
    {i \in 1..Len(mxliff_lookup) : mxliff_lookup[i].source = clean_source}

\* the updates one row adds (lines 794-842); `at` names the table and the
\* row, for reference only
RowUpdates(row, source_col, comments_col, mxliff_lookup, at) ==
    LET source_text == StripSpace(row[source_col])
        comment_text == StripSpace(row[comments_col])
        clean_source == preprocess_text(source_text)
        exact == ExactMatch(clean_source, mxliff_lookup)
        fuzzy == FuzzyLoop(clean_source, mxliff_lookup, 1, NoMatch)
    IN  IF source_text = <<>> \/ comment_text = <<>> THEN <<>>
        ELSE IF exact # {}
        THEN <<[key         |-> mxliff_lookup[CHOOSE i \in exact : TRUE].value.key,
                source_text |-> clean_source,
                comment     |-> comment_text,
                match_type  |-> "exact",
                match_ratio |-> <<>>,
                at          |-> at]>>
        ELSE IF fuzzy.found
        THEN <<[key         |-> fuzzy.best_match.key,
                source_text |-> fuzzy.best_match.original_text,
                comment     |-> comment_text,
                match_type  |-> "fuzzy",
                match_ratio |-> fuzzy.best_ratio,
                at          |-> at]>>
        ELSE <<>>

\* a faulty variant: the row is matched whatever the number of matches
MatchRow_NoCap(row, source_col, comments_col, mxliff_lookup, at, st) ==
    LET added == RowUpdates(row, source_col, comments_col, mxliff_lookup, at)
    IN  [updates     |-> st.updates \o added,
         match_count |-> st.match_count + Len(added)]

\* one iteration of the loop over the rows (lines 790-842); st is
\* [updates, match_count]
MatchRow(row, source_col, comments_col, mxliff_lookup, at, st) ==
    IF st.match_count >= MAX_MATCHES THEN st
    ELSE LET added == RowUpdates(row, source_col, comments_col, mxliff_lookup, at)
         IN  [updates     |-> st.updates \o added,
              match_count |-> st.match_count + Len(added)]

\* the loop over the rows lo..hi of one table, in the order of the rows (the
\* rows lo..mid, then the rows mid+1..hi)
RECURSIVE MatchRows(_, _, _, _, _, _, _, _)
MatchRows(rows, lo, hi, source_col, comments_col, mxliff_lookup, table_idx, st) ==
    IF lo > hi THEN st
    ELSE IF lo = hi
    THEN MatchRow(rows[lo], source_col, comments_col, mxliff_lookup, <<table_idx, lo>>, st)
    ELSE LET mid == (lo + hi) \div 2
         IN  \* the state after the rows lo..mid is computed once
             CHOOSE last \in
                 {MatchRows(rows, mid + 1, hi, source_col, comments_col, mxliff_lookup,
                            table_idx, first) :
                      first \in {MatchRows(rows, lo, mid, source_col, comments_col,
                                           mxliff_lookup, table_idx, st)}} : TRUE

\* the loop over the conversation tables (lines 780-842)
RECURSIVE MatchTables(_, _, _, _)
MatchTables(tables, n, mxliff_lookup, st) ==
    IF n > Len(tables) THEN st
    ELSE LET source_col == FirstColumn(tables[n].columns, "source")
             comments_col == FirstColumn(tables[n].columns, "comment")
         IN  IF ~tables[n].has_conversation_column \/ tables[n].rows = <<>>
                \/ source_col = 0 \/ comments_col = 0
             THEN MatchTables(tables, n + 1, mxliff_lookup, st)
             ELSE CHOOSE last \in
                      {MatchTables(tables, n + 1, mxliff_lookup, next) :
                           next \in {MatchRows(tables[n].rows, 1, Len(tables[n].rows),
                                               source_col, comments_col, mxliff_lookup,
                                               n, st)}} : TRUE

\* DocumentParser.match_content_with_mxliff(mxliff_data) with self.tables
match_content_with_mxliff(tables, mxliff_data) ==
    IF mxliff_data = <<>> \/ tables = <<>> THEN [matches |-> 0, updates |-> <<>>]
    ELSE CHOOSE result \in
             {[matches |-> st.match_count, updates |-> st.updates] :
                  st \in {MatchTables(tables, 1, mxliff_lookup,
                                      [updates |-> <<>>, match_count |-> 0]) :
                              mxliff_lookup \in {BuildLookup(mxliff_data, 1, <<>>)}}} : TRUE

----------------------------------------------------------------------------
(* SpecMatch: match_content_with_mxliff applied to at most MaxRecords       *)
(* records and a table of at most MaxRows rows                              *)

MaxRecords == 2
MaxRows == 1

\* the source texts: "abcd efghi", the same with a non-breaking space, with
\* one and with two other characters at its end, without its last character,
\* and two longer texts that start with it
Abcd_Efghi      == <<"a", "b", "c", "d", " ", "e", "f", "g", "h", "i">>
Abcd_Efghi_NBSP == <<"a", "b", "c", "d", "NBSP", "e", "f", "g", "h", "i">>
Abcd_EfghX      == <<"a", "b", "c", "d", " ", "e", "f", "g", "h", "X">>
Abcd_EfgXY      == <<"a", "b", "c", "d", " ", "e", "f", "g", "X", "Y">>
Abcd_Efgh       == <<"a", "b", "c", "d", " ", "e", "f", "g", "h">>
Abcd_Efghijkl   == <<"a", "b", "c", "d", " ", "e", "f", "g", "h", "i", "j", "k", "l">>
Abcd_Efghijklmnopqr == <<"a", "b", "c", "d", " ", "e", "f", "g", "h", "i", "j", "k", "l", "m", "n", "o", "p", "q", "r">>

RecordSources == {Abcd_Efghi, Abcd_Efghi_NBSP, Abcd_EfghX, Abcd_Efgh, Abcd_Efghijkl}

RowSources == {Abcd_Efghi, Abcd_EfghX, Abcd_EfgXY, Abcd_Efgh, Abcd_Efghijklmnopqr,
               <<" ">>}

\* the record lists: a header and up to MaxRecords items, or nothing
MatchRecord(i, source_text) ==
    ItemEntry([NoItem EXCEPT !.index = i - 1, !.key = <<"k", Str(i)>>,
                             !.source_text = source_text])

MatchData(most) ==
    {<<>>} \cup UNION {{<<HeaderEntry>> \o [i \in 1..n |-> MatchRecord(i, sources[i])] :
                          sources \in [1..n -> RecordSources]} : n \in 1..most}

\* the rows: a source cell and a comment cell
MatchRowCells ==
    {[source |-> t, comment |-> <<"c">>] : t \in RowSources}
    \cup {[source |-> Abcd_Efghi, comment |-> <<>>]}

\* the tables: a conversation table with a source and a comment column, one
\* without a comment column, and a table that is no conversation table
TableShapes ==
    {[has_conversation_column |-> TRUE,  columns |-> <<<<"Source">>, <<"Comment">>>>],
     [has_conversation_column |-> TRUE,  columns |-> <<<<"Id">>, <<"Source">>>>],
     [has_conversation_column |-> FALSE, columns |-> <<<<"Source">>, <<"Comment">>>>]}

CellOf(cells, column) ==
    IF column = <<"Source">> THEN cells.source
    ELSE IF column = <<"Comment">> THEN cells.comment
    ELSE IF column = <<"COTeam", "Comment">> THEN cells.coteam
    ELSE <<"1">>

MatchTable(shape, rows) ==
    [has_conversation_column |-> shape.has_conversation_column,
     columns |-> shape.columns,
     rows    |-> [r \in 1..Len(rows) |->
                     [c \in 1..Len(shape.columns) |-> CellOf(rows[r], shape.columns[c])]]]

DocumentTables(most) ==
    {<<>>} \cup UNION {{<<MatchTable(shape, rows)>> :
                           shape \in TableShapes, rows \in [1..n -> MatchRowCells]} :
                       n \in 0..most}

InitMatch ==
    /\ xml \in DocumentTables(MaxRows)
    /\ data \in MatchData(MaxRecords)
    /\ recs = [data |-> <<>>, errors |-> <<>>]
    /\ out = NoOutcome
    /\ intLimit = FALSE
    /\ pc = "input"

\* one call of match_content_with_mxliff
Match ==
    /\ pc = "input"
    /\ \E result \in {match_content_with_mxliff(xml, data)} :
           out' = [status  |-> "matched",
                   matches |-> result.matches,
                   updates |-> result.updates]
    /\ pc' = "matched"
    /\ UNCHANGED <<xml, data, recs, intLimit>>

NextMatch == Match

SpecMatch == InitMatch /\ [][NextMatch]_vars

----------------------------------------------------------------------------
(* Claims about match_content_with_mxliff, checked under SpecMatch *)

\* the rows the matcher reads: <<table, row>> of a conversation table that
\* has a source and a comment column, with a non-empty source and comment
ReadRows(tables) ==
    {at \in UNION {{<<t, r>> : r \in 1..Len(tables[t].rows)} : t \in 1..Len(tables)} :
        LET table == tables[at[1]]
            s == {c \in 1..Len(table.columns) : table.columns[c] = <<"Source">>}
            k == {c \in 1..Len(table.columns) : table.columns[c] = <<"Comment">>}
        IN  /\ table.has_conversation_column
            /\ s # {} /\ k # {}
            /\ \A c \in s \cup k : StripSpace(table.rows[at[2]][c]) # <<>>}

\* the normalized source text of a row that is read
RowSource(tables, at) ==
    LET table == tables[at[1]]
        c == CHOOSE c \in 1..Len(table.columns) : table.columns[c] = <<"Source">>
    IN  preprocess_text(table.rows[at[2]][c])

\* the updates emitted for a row
UpdatesAt(updates, at) == SelectSeq(updates, LAMBDA u : u.at = at)

\* the last record whose normalized source text is the lookup key
LastRecordOf(entries, clean_source) ==
    CHOOSE i \in ItemRows(entries) :
        /\ preprocess_text(entries[i].item.source_text) = clean_source
        /\ \A j \in ItemRows(entries) :
               preprocess_text(entries[j].item.source_text) = clean_source => j <= i

\* C19: exact match priority: whenever a row's normalized source text equals
\* a lookup key, the update emitted for that row has match_type 'exact' and
\* the key of that lookup entry, and no fuzzy comparison decides the row,
\* even if another lookup entry reaches a similarity ratio above the
\* threshold.
C19_ExactMatchFirst ==
    pc = "matched" =>
        LET mxliff_lookup == BuildLookup(data, 1, <<>>) IN
        \A at \in ReadRows(xml) :
            (\E n \in 1..Len(mxliff_lookup) : mxliff_lookup[n].source = RowSource(xml, at))
                => LET emitted == UpdatesAt(out.updates, at) IN
                   /\ Len(emitted) = 1
                   /\ emitted[1].match_type = "exact"
                   /\ emitted[1].match_ratio = <<>>
                   /\ emitted[1].key
                          = data[LastRecordOf(data, RowSource(xml, at))].item.key

\* a row matched exactly although the lookup holds, ahead of the entry of
\* its text, an entry whose ratio to the row is above the threshold
C19_Witness ==
    /\ pc = "matched"
    /\ Len(data) = 3
    /\ data[2].item.source_text = Abcd_EfghX
    /\ data[3].item.source_text = Abcd_Efghi_NBSP
    /\ Len(out.updates) = 1
    /\ out.updates[1].match_type = "exact"
    /\ out.updates[1].key = <<"k", "2">>

\* the lookup entries the claim admits as candidates for a text
Candidates(mxliff_lookup, clean_source) ==
    {n \in 1..Len(mxliff_lookup) :
        /\ Len(clean_source) >= 10
        /\ Len(mxliff_lookup[n].source) >= 10
        /\ Len(clean_source) - Len(mxliff_lookup[n].source) \in -5..5}

\* the fractions p and q are equal, p is above q
SameRatio(p, q) == p[1] * q[2] = q[1] * p[2]
Above(p, q) == p[1] * q[2] > q[1] * p[2]

\* C20: fuzzy selection: for a row with no exact match, the candidates are
\* the lookup entries where both strings are at least 10 characters long and
\* their lengths differ by at most 5; a fuzzy update is emitted only if some
\* candidate's ratio is strictly greater than 0.8, and it names the candidate
\* with the highest ratio and reports that ratio as match_ratio.
C20_FuzzyAboveThreshold ==
    pc = "matched" =>
        LET mxliff_lookup == BuildLookup(data, 1, <<>>) IN
        \A at \in ReadRows(xml) :
            LET clean_source == RowSource(xml, at)
                emitted == UpdatesAt(out.updates, at)
                candidates == Candidates(mxliff_lookup, clean_source)
                above == {n \in candidates :
                             Above(Ratio(clean_source, mxliff_lookup[n].source), <<4, 5>>)}
            IN  (\A n \in 1..Len(mxliff_lookup) : mxliff_lookup[n].source # clean_source)
                    => IF above = {} THEN emitted = <<>>
                       ELSE /\ Len(emitted) = 1
                            /\ emitted[1].match_type = "fuzzy"
                            /\ \E n \in above :
                                   /\ emitted[1].key = mxliff_lookup[n].value.key
                                   /\ SameRatio(emitted[1].match_ratio,
                                                Ratio(clean_source, mxliff_lookup[n].source))
                                   /\ \A m \in candidates :
                                          ~Above(Ratio(clean_source, mxliff_lookup[m].source),
                                                 emitted[1].match_ratio)

\* a row whose ratio to one entry is exactly 0.8 and to another 0.9: the
\* update names the second
C20_Witness ==
    /\ pc = "matched"
    /\ Len(data) = 3
    /\ data[2].item.source_text = Abcd_Efghi
    /\ data[3].item.source_text = Abcd_EfghX
    /\ \E at \in ReadRows(xml) : RowSource(xml, at) = Abcd_EfgXY
    /\ Len(out.updates) = 1
    /\ out.updates[1].match_type = "fuzzy"
    /\ out.updates[1].key = <<"k", "2">>
    /\ out.updates[1].match_ratio = <<18, 20>>

----------------------------------------------------------------------------
(* SpecMatchCap: match_content_with_mxliff applied to tables long enough    *)
(* for MAX_MATCHES to be reached: a first table of MAX_MATCHES - 1 to       *)
(* MAX_MATCHES + MaxExtraRows rows and, or not, a second table of up to     *)
(* MaxExtraRows rows                                                        *)

MaxExtraRows == 2

\* the rows of a long table: every row has the text of a record ("exact"),
\* the first row has no source text and the others the text of a record
\* ("blank-first"), or the rows from MAX_MATCHES - 1 on have a text that is
\* only similar to that of a record ("similar-last")
RowPatterns == {"exact", "blank-first", "similar-last"}

LongRows(n, pattern) ==
    [r \in 1..n |->
        IF pattern = "similar-last" /\ r >= MAX_MATCHES - 1
        THEN [source |-> Abcd_EfgXY, comment |-> <<"c">>]
        ELSE IF pattern = "blank-first" /\ r = 1
        THEN [source |-> <<" ">>, comment |-> <<"c">>]
        ELSE [source |-> Abcd_Efghi, comment |-> <<"c">>]]

ConversationShape ==
    [has_conversation_column |-> TRUE, columns |-> <<<<"Source">>, <<"Comment">>>>]

LongTables(extra) ==
    LET first == {MatchTable(ConversationShape, LongRows(n, pattern)) :
                     n \in (MAX_MATCHES - 1)..(MAX_MATCHES + extra),
                     pattern \in RowPatterns}
        second == {MatchTable(ConversationShape, LongRows(n, "exact")) : n \in 1..extra}
    IN  {<<t>> : t \in first} \cup {<<t, u>> : t \in first, u \in second}

CapData ==
    {<<HeaderEntry, MatchRecord(1, Abcd_Efghi)>>,
     <<HeaderEntry, MatchRecord(1, Abcd_EfghX), MatchRecord(2, Abcd_Efghi)>>}

InitMatchCap ==
    /\ xml \in LongTables(MaxExtraRows)
    /\ data \in CapData
    /\ recs = [data |-> <<>>, errors |-> <<>>]
    /\ out = NoOutcome
    /\ intLimit = FALSE
    /\ pc = "input"

SpecMatchCap == InitMatchCap /\ [][NextMatch]_vars

----------------------------------------------------------------------------
(* Claims about MAX_MATCHES, checked under SpecMatchCap *)

\* the row p comes before the row q in the order of the tables and rows
AtBefore(p, q) == p[1] < q[1] \/ (p[1] = q[1] /\ p[2] < q[2])

\* C21: matching cap: the updates list returned by match_content_with_mxliff
\* has at most 500 entries, the reported match count equals the length of the
\* updates list, the updates follow the order of the rows with at most one
\* update per row, and once 500 updates have been emitted no further row of
\* the current table or of any later table produces an update.
C21_MatchingCap ==
    pc = "matched" =>
        /\ Len(out.updates) <= 500
        /\ out.matches = Len(out.updates)
        /\ \A i \in 1..Len(out.updates) - 1 :
               AtBefore(out.updates[i].at, out.updates[i + 1].at)
        /\ Len(out.updates) >= 500 =>
               \A at \in ReadRows(xml) :
                   AtBefore(out.updates[500].at, at) => UpdatesAt(out.updates, at) = <<>>

\* 500 updates were emitted, and rows that have the text of a record follow
\* the row of the last one in the same table and in a later table
C21_Witness ==
    /\ pc = "matched"
    /\ Len(out.updates) = 500
    /\ out.matches = 500
    /\ Len(xml) = 2
    /\ \E at \in ReadRows(xml) :
           /\ at[1] = 1
           /\ AtBefore(out.updates[500].at, at)
           /\ RowSource(xml, at) = Abcd_Efghi
    /\ \E at \in ReadRows(xml) : at[1] = 2 /\ RowSource(xml, at) = Abcd_Efghi

----------------------------------------------------------------------------
(* SpecMatchKeys: match_content_with_mxliff applied to the display entries  *)
(* of at most MaxRecords records, among them records without a key,         *)
(* records without a source text and missing-line placeholders, and a       *)
(* conversation table of at most MaxRows rows                               *)

RecordKinds == {"keyed", "keyless", "short", "no-source", "placeholder"}

\* the display item of position i: its key is k<i> unless its kind is
\* "keyless"
KindItem(i, kind) ==
    LET item == DisplayItem([NoItem EXCEPT
                    !.index = i - 1,
                    !.key = IF kind = "keyless" THEN <<>> ELSE <<"k", Str(i)>>,
                    !.source_text = IF kind = "no-source" THEN <<>>
                                    ELSE IF kind = "short" THEN Abcd_Efgh
                                    ELSE IF kind = "keyless" THEN Abcd_EfghX
                                    ELSE Abcd_Efghi])
    IN  IF kind = "placeholder" THEN Placeholder(item, 1) ELSE item

KindData(most) ==
    {<<>>} \cup UNION {{<<HeaderEntry>> \o [i \in 1..n |-> ItemEntry(KindItem(i, kinds[i]))] :
                          kinds \in [1..n -> RecordKinds]} : n \in 1..most}

KindRowSources == {Abcd_Efghi, Abcd_EfghX, Abcd_Efgh, MissingLine}

KindTables(most) ==
    {<<>>} \cup UNION {{<<MatchTable(ConversationShape,
                                     [r \in 1..n |-> [source |-> sources[r],
                                                      comment |-> <<"c">>]])>> :
                           sources \in [1..n -> KindRowSources]} : n \in 0..most}

InitMatchKeys ==
    /\ xml \in KindTables(MaxRows)
    /\ data \in KindData(MaxRecords)
    /\ recs = [data |-> <<>>, errors |-> <<>>]
    /\ out = NoOutcome
    /\ intLimit = FALSE
    /\ pc = "input"

SpecMatchKeys == InitMatchKeys /\ [][NextMatch]_vars

\* C22: the lookup in match_content_with_mxliff holds an entry only for
\* records that have a non-empty key and a non-empty source text whose
\* normalized form is at least 10 characters long; consequently every update
\* it emits (exact or fuzzy) carries a non-empty key of a real translation
\* record.
C22_LookupHoldsKeyedRecords ==
    pc = "matched" =>
        LET mxliff_lookup == BuildLookup(data, 1, <<>>) IN
        /\ \A n \in 1..Len(mxliff_lookup) :
               /\ mxliff_lookup[n].value.key # <<>>
               /\ \E i \in ItemRows(data) :
                      /\ data[i].item.key = mxliff_lookup[n].value.key
                      /\ StripSpace(data[i].item.source_text) # <<>>
                      /\ preprocess_text(data[i].item.source_text) = mxliff_lookup[n].source
                      /\ Len(mxliff_lookup[n].source) >= 10
        /\ \A u \in 1..Len(out.updates) :
               /\ out.updates[u].key # <<>>
               /\ \E i \in ItemRows(data) :
                      /\ ~data[i].item.is_missing_line
                      /\ data[i].item.key = out.updates[u].key

----------------------------------------------------------------------------
(* SpecMatchColumns: match_content_with_mxliff applied to conversation      *)
(* tables of several column layouts, of at most MaxRows rows                *)

\* the column names, word by word
ColumnLayouts ==
    {<<<<"Source">>, <<"Comment">>>>,
     <<<<"Source">>, <<"Comment">>, <<"COTeam", "Comment">>>>,
     <<<<"COTeam", "Comment">>, <<"Comment">>, <<"Source">>>>,
     <<<<"Id">>, <<"source">>, <<"Source">>, <<"comment">>>>,
     <<<<"Id">>, <<"Source">>>>,
     <<<<"Comment">>, <<"COTeam", "Comment">>>>}

\* the cells of a row: a source text or none, a comment or none, a comment
\* of the COTeam column or none
ColumnRowCells ==
    [source : {Abcd_Efghi, <<" ">>}, comment : {<<"c">>, <<>>}, coteam : {<<"t">>, <<>>}]

\* the cell of the lower-case columns: the row's source text with one more
\* character, the row's comment with one more character
ColumnCellOf(cells, column) ==
    IF column = <<"source">> THEN cells.source \o <<"j">>
    ELSE IF column = <<"comment">> THEN cells.comment \o <<"d">>
    ELSE CellOf(cells, column)

ColumnTable(columns, rows) ==
    [has_conversation_column |-> TRUE,
     columns |-> columns,
     rows    |-> [r \in 1..Len(rows) |->
                     [c \in 1..Len(columns) |-> ColumnCellOf(rows[r], columns[c])]]]

ColumnTables(most) ==
    UNION {{<<ColumnTable(columns, rows)>> :
               columns \in ColumnLayouts, rows \in [1..n -> ColumnRowCells]} : n \in 0..most}

ColumnData ==
    {<<HeaderEntry, MatchRecord(1, Abcd_Efghi)>>,
     <<HeaderEntry, MatchRecord(1, Abcd_Efghi), MatchRecord(2, Abcd_Efghi \o <<"j">>)>>}

InitMatchColumns ==
    /\ xml \in ColumnTables(MaxRows)
    /\ data \in ColumnData
    /\ recs = [data |-> <<>>, errors |-> <<>>]
    /\ out = NoOutcome
    /\ intLimit = FALSE
    /\ pc = "input"

SpecMatchColumns == InitMatchColumns /\ [][NextMatch]_vars

\* the first column whose lower-case name has every word of `words`, 0 if
\* there is none
FirstNamed(columns, words) ==
    LET named == {c \in 1..Len(columns) :
                     \A w \in words : \E i \in 1..Len(columns[c]) : LowerWord(columns[c][i]) = w}
    IN  IF named = {} THEN 0 ELSE CHOOSE c \in named : \A d \in named : c <= d

\* the comment column of the claim: the first column named 'coteam' and
\* 'comment' if there is one, the first column named 'comment' otherwise
PreferredCommentColumn(columns) ==
    IF FirstNamed(columns, {"coteam", "comment"}) # 0
    THEN FirstNamed(columns, {"coteam", "comment"})
    ELSE FirstNamed(columns, {"comment"})

\* C23: column detection: for each table the source column is the first
\* column whose name contains 'source' (case-insensitive) and the comment
\* column is the first column whose name contains 'comment'
\* (case-insensitive), with a column whose name also contains 'coteam'
\* preferred over any other comment column; a table lacking either column
\* contributes no updates, and a row whose source or comment cell is empty
\* contributes no update.
C23_ColumnDetection ==
    pc = "matched" =>
        \A t \in 1..Len(xml) :
            LET source_col == FirstNamed(xml[t].columns, {"source"})
                comments_col == PreferredCommentColumn(xml[t].columns)
            IN  \A r \in 1..Len(xml[t].rows) :
                    LET emitted == UpdatesAt(out.updates, <<t, r>>) IN
                    IF source_col = 0 \/ comments_col = 0 THEN emitted = <<>>
                    ELSE IF StripSpace(xml[t].rows[r][source_col]) = <<>>
                            \/ StripSpace(xml[t].rows[r][comments_col]) = <<>>
                    THEN emitted = <<>>
                    ELSE emitted = RowUpdates(xml[t].rows[r], source_col, comments_col,
                                              BuildLookup(data, 1, <<>>), <<t, r>>)

----------------------------------------------------------------------------
(* SpecWorkers: the FileProcessingWorker threads of the window              *)
(* (FileProcessingWorker.py, main_window.py 118-140, 334-355, 677-705,      *)
(* 826-846). recs is the sequence of the workers created so far, out.worker *)
(* the position of self.worker in it (0 while the window has no worker),    *)
(* out.finished the workers whose finished_signal was emitted, pc is        *)
(* "running" or "crashed". A worker is [operation_type, cancelled, at,      *)
(* chunks, cancelled_at]: `at` is its position in run(), chunks the number  *)
(* of chunks of its file not yet read, cancelled_at its position when       *)
(* cancel() was first called, for reference only.                           *)

MaxWorkers == 2
MaxChunks == 2

OperationTypes == {"parse_xml", "export_file", "process_document"}

\* FileProcessingWorker(file_path, operation_type, parent) followed by
\* start()
NewWorker(operation_type, chunks) ==
    [operation_type |-> operation_type, cancelled |-> FALSE, at |-> "ready",
     chunks |-> chunks, cancelled_at |-> "none"]

\* QThread.isRunning(): started and not finished
isRunning(worker) == worker.at # "finished"

InitWorkers ==
    /\ xml = <<>>
    /\ data = <<>>
    /\ recs = <<>>
    /\ out = [worker |-> 0, finished |-> {}]
    /\ intLimit = FALSE
    /\ pc = "running"

\* _start_xml_parsing, _start_export, _start_document_processing: a worker
\* is created, assigned to self.worker and started, whatever the previous
\* worker does. The previous worker has no parent and no other reference:
\* if it is still running the thread object is destroyed while it runs,
\* which ends the process or leaves the thread running
StartWorker(operation_type, chunks) ==
    /\ pc = "running"
    /\ Len(recs) < MaxWorkers
    /\ recs' = Append(recs, NewWorker(operation_type, chunks))
    /\ out' = [out EXCEPT !.worker = Len(recs) + 1]
    /\ data' = IF operation_type = "parse_xml" THEN <<>> ELSE data
    /\ \/ pc' = "running"
       \/ /\ out.worker # 0
          /\ isRunning(recs[out.worker])
          /\ pc' = "crashed"
    /\ UNCHANGED <<xml, intLimit>>

StartXmlParsing == \E chunks \in 0..MaxChunks : StartWorker("parse_xml", chunks)

StartExport == StartWorker("export_file", 0)

StartDocumentProcessing == StartWorker("process_document", 0)

\* cancel_current_operation with the reply Yes: self.worker.cancel()
CancelCurrentOperation ==
    /\ pc = "running"
    /\ out.worker # 0
    /\ isRunning(recs[out.worker])
    /\ recs' = [recs EXCEPT ![out.worker] =
                   [@ EXCEPT !.cancelled = TRUE,
                             !.cancelled_at = IF @ = "none" THEN recs[out.worker].at ELSE @]]
    /\ UNCHANGED <<xml, data, out, intLimit, pc>>

\* run() up to the call of the operation (lines 27-39)
RunStep(worker) ==
    IF worker.cancelled THEN [worker EXCEPT !.at = "finished"]
    ELSE IF worker.operation_type = "parse_xml" THEN [worker EXCEPT !.at = "reading"]
    ELSE [worker EXCEPT !.at = "working"]

\* a faulty variant: the chunks are read without a look at the flag
ReadStep_NoFlagTest(worker) ==
    IF worker.chunks = 0 THEN [worker EXCEPT !.at = "parsing"]
    ELSE [worker EXCEPT !.chunks = @ - 1]

\* one iteration of the loop of _parse_xml (lines 63-77): the flag test, the
\* read, the break at the end of the file
ReadStep(worker) ==
    IF worker.cancelled THEN [worker EXCEPT !.at = "finished"]
    ELSE IF worker.chunks = 0 THEN [worker EXCEPT !.at = "parsing"]
    ELSE [worker EXCEPT !.chunks = @ - 1]

\* a step of the thread of worker w that emits no finished_signal
Run(w) ==
    /\ pc = "running"
    /\ \/ recs[w].at = "ready" /\ recs' = [recs EXCEPT ![w] = RunStep(@)]
       \/ recs[w].at = "reading" /\ recs' = [recs EXCEPT ![w] = ReadStep(@)]
       \* error_signal in place of finished_signal (lines 96-99, 132-135,
       \* 151-160, 175-178)
       \/ /\ recs[w].at \in {"reading", "parsing", "working"}
          /\ recs' = [recs EXCEPT ![w].at = "finished"]
    /\ UNCHANGED <<xml, data, out, intLimit, pc>>

\* the end of _parse_xml (lines 79-94), _export_file (101-130) and
\* _process_document (137-173): the operation and finished_signal.emit
Emit(w) ==
    /\ pc = "running"
    /\ recs[w].at \in {"parsing", "working"}
    /\ recs' = [recs EXCEPT ![w].at = "finished"]
    /\ out' = [out EXCEPT !.finished = @ \cup {w}]
    /\ UNCHANGED <<xml, data, intLimit, pc>>

NextWorkers ==
    \/ StartXmlParsing
    \/ StartExport
    \/ StartDocumentProcessing
    \/ CancelCurrentOperation
    \/ \E w \in 1..Len(recs) : Run(w)
    \/ \E w \in 1..Len(recs) : Emit(w)

SpecWorkers == InitWorkers /\ [][NextWorkers]_vars

\* the workers that run
Running(workers) == {w \in 1..Len(workers) : isRunning(workers[w])}

C25_CancelledNeverEmits ==
    \A w \in 1..Len(recs) :
        (recs[w].operation_type = "parse_xml" /\ recs[w].cancelled) => w \notin out.finished

\* C25: cooperative cancellation: a parse_xml worker on which cancel() is
\* called before its last test of the flag (at the start of run() or in the
\* loop that reads the file) exits early and never emits finished_signal; the
\* flag is observed at the start of run() and between file-read chunks, so
\* the worker leaves run() at its next step there.
C25_CancelledWhileReadingNeverEmits ==
    \A w \in 1..Len(recs) :
        (recs[w].operation_type = "parse_xml" /\ recs[w].cancelled_at \in {"ready", "reading"})
            => /\ w \notin out.finished
               /\ recs[w].at \in {"ready", "reading", "finished"}

\* a parse_xml worker cancelled between two chunks has left run() with
\* chunks unread and without finished_signal
C25_Witness ==
    \E w \in 1..Len(recs) :
        /\ recs[w].operation_type = "parse_xml"
        /\ recs[w].cancelled_at = "reading"
        /\ recs[w].at = "finished"
        /\ recs[w].chunks = 1
        /\ w \notin out.finished

----------------------------------------------------------------------------
(* SpecDocument: a document of at most MaxDocRows rows is matched to the    *)
(* display entries of at most MaxRecords records, and its comments are      *)
(* applied by _process_document or by _on_document_processed. out keeps the *)
(* updates of the match and the entries as they were before.                *)

MaxDocRows == 2

\* the source text of the record of position i
DocSource(i) ==
    IF i = 1 THEN Abcd_Efghi
    ELSE IF i = 2 THEN Abcd_Efghijkl
    ELSE Abcd_Efghijklmnopqr \o [j \in 1..(i - 3) |-> "s"]

\* the note of a record: none, an Order line, a Comment line
DocNotes == {<<>>, <<"Order:", " ", "1">>, <<"Comment:", " ", "x">>}

\* the keys of the records: k1, k2, ... or k1, k1.F, k3, ...
DocKey(i, layout) ==
    IF layout = "variant" /\ i = 2 THEN <<"k", "1", ".F">> ELSE <<"k", Str(i)>>

DocItem(i, layout, note_text) ==
    DisplayItem([NoItem EXCEPT !.index = i - 1,
                               !.key = DocKey(i, layout),
                               !.source_text = DocSource(i),
                               !.target_text = <<"t">>,
                               !.original_target_text = <<"t">>,
                               !.note_text = note_text])

DocData(most) ==
    UNION {{<<HeaderEntry>> \o [i \in 1..n |-> ItemEntry(DocItem(i, layout, notes[i]))] :
               layout \in {"distinct", "variant"}, notes \in [1..n -> DocNotes]} :
           n \in 1..most}

\* the rows: the source text of the first or of the second record or a text
\* of no record, and the comment c<row>
DocTables(most) ==
    UNION {{<<MatchTable(ConversationShape,
                         [r \in 1..n |-> [source |-> sources[r],
                                          comment |-> <<"c", Str(r)>>]])>> :
               sources \in [1..n -> {DocSource(1), DocSource(2), Abcd_EfgXY \o <<"Z", "Z">>}]} :
           n \in 0..most}

InitDocument ==
    /\ xml \in DocTables(MaxDocRows)
    /\ data \in DocData(MaxRecords)
    /\ recs = [data |-> <<>>, errors |-> <<>>]
    /\ out = NoOutcome
    /\ intLimit = FALSE
    /\ pc = "loaded"

\* _process_document (lines 1437-1524) for the tables of the document
ProcessDocumentTables ==
    /\ pc = "loaded"
    /\ \E match_results \in {match_content_with_mxliff(xml, data)} :
       /\ data' = ProcessedData(data, match_results.updates)
       /\ out' = [status |-> "processed", handler |-> "_process_document",
                  updates |-> match_results.updates, before |-> data]
    /\ pc' = "processed"
    /\ UNCHANGED <<xml, recs, intLimit>>

\* the worker's _process_document (FileProcessingWorker.py 162-173) and
\* _on_document_processed (lines 707-744) for its result
OnDocumentTablesProcessed ==
    /\ pc = "loaded"
    /\ \E match_results \in {match_content_with_mxliff(xml, data)} :
       /\ data' = ApplyUpdates(data, match_results.updates, 1)
       /\ out' = [status |-> "processed", handler |-> "_on_document_processed",
                  updates |-> match_results.updates, before |-> data]
    /\ pc' = "processed"
    /\ UNCHANGED <<xml, recs, intLimit>>

NextDocument == ProcessDocumentTables \/ OnDocumentTablesProcessed

SpecDocument == InitDocument /\ [][NextDocument]_vars

\* the updates that carry the key
UpdatesOfKey(updates, key) == SelectSeq(updates, LAMBDA u : u.key = key)

\* C26: comment application: after document processing, for every update
\* returned by match_content_with_mxliff whose key equals the key of a loaded
\* record, that record's note_text contains the update's comment text,
\* appended after its previous note_text content (which is preserved);
\* records whose key matches no update keep their note_text unchanged, and
\* no record's target_text is changed.
C26_CommentsAreAppended ==
    pc = "processed" =>
        /\ Len(data) = Len(out.before)
        /\ \A i \in ItemRows(data) :
               LET before == out.before[i].item
                   after == data[i].item
                   mine == UpdatesOfKey(out.updates, before.key)
                   added == SubSeq(after.note_text, Len(before.note_text) + 1,
                                   Len(after.note_text))
               IN  /\ after.target_text = before.target_text
                   /\ mine = <<>> => after.note_text = before.note_text
                   /\ mine # <<>> =>
                          /\ Len(after.note_text) > Len(before.note_text)
                          /\ SubSeq(after.note_text, 1, Len(before.note_text))
                                 = before.note_text
                          /\ \A u \in 1..Len(mine) : Contains(mine[u].comment, added)

----------------------------------------------------------------------------
(* Claims about the loaded entries, checked under SpecGaps *)

\* has_unsaved_changes() (main_window.py 1137-1157)
has_unsaved_changes(processed_data) ==
    \E i \in 1..Len(processed_data) :
        /\ IsKeyedItem(processed_data[i])
        /\ processed_data[i].item.target_text # processed_data[i].item.original_target_text

\* C27: dirty-tracking starts clean: immediately after a file is loaded and
\* grouped for display, and before any user edit, every entry of
\* processed_data that carries a non-empty key, including synthesized
\* missing-line placeholders, has target_text = original_target_text; hence
\* has_unsaved_changes() is false and update_xml_content counts zero edited
\* translations.
C27_LoadStartsClean ==
    pc = "loaded" =>
        /\ \A i \in ItemRows(data) :
               data[i].item.key # <<>>
                   => data[i].item.target_text = data[i].item.original_target_text
        /\ ~has_unsaved_changes(data)
        /\ DOMAIN EditedTranslations(data) = {}

----------------------------------------------------------------------------
(* The round trip through update_xml_content and parse_xml, checked under   *)
(* SpecPatch                                                                *)

\* the entries are the records parse_xml extracts from the text, some of
\* them, of distinct non-empty keys, with a new target_text
EditedRecordsOf(entries, text) ==
    LET items == ItemsOf(entries) IN
    /\ [i \in 1..Len(items) |->
           [items[i] EXCEPT !.target_text = items[i].original_target_text]]
           = parse_xml(text, FALSE).data
    /\ \A i \in 1..Len(items) :
           items[i].target_text # items[i].original_target_text => items[i].key # <<>>
    /\ \A i, j \in 1..Len(items) :
           (i # j /\ IsChanged(items[i]) /\ IsChanged(items[j]))
               => items[i].key # items[j].key

\* C28: extract-after-patch round trip: for records = parse_xml(x) in which
\* some records with distinct non-empty keys are given new target_text values
\* containing no markup, parse_xml(update_xml_content(x, records)) yields the
\* same number of records in the same order, with target_text equal to the
\* edited value for exactly the edited records and to the originally
\* extracted value for all others, and with key, source_text, note_text,
\* group_id and trans_id unchanged for every record.
C28_ExtractAfterPatch ==
    (Returned /\ xml # <<>> /\ EditedRecordsOf(data, xml)) =>
        LET items == ItemsOf(data)
            again == parse_xml(out.text, FALSE).data
        IN  /\ Len(again) = Len(items)
            /\ \A i \in 1..Len(items) :
                   /\ again[i].target_text = items[i].target_text
                   /\ again[i].key = items[i].key
                   /\ again[i].source_text = items[i].source_text
                   /\ again[i].note_text = items[i].note_text
                   /\ again[i].group_id = items[i].group_id
                   /\ again[i].trans_id = items[i].trans_id

(***************************************************************************)
(* Placeholder soundness (main_window.py 2196-2226)                        *)
(***************************************************************************)

\* the rows of the group under the header h that hold a synthesized placeholder
PlaceholderRows(entries, h) ==
    {q \in (h + 1)..(h + entries[h].item_count) : entries[q].item.is_missing_line}

\* C29: placeholder soundness: for any order of line numbers within a group
\* (decreasing along the (order_value, index) order, repeating, or falling
\* back to order_value), no synthesized placeholder carries a line number that
\* a real record of the same group has, and no line number of a group gets
\* more than one placeholder.
C29_PlaceholderSoundness ==
    pc = "loaded" =>
        \A h \in HeaderRows(data) :
            LET real == RealRows(data, h)
                made == PlaceholderRows(data, h)
            IN  /\ \A q \in made : \A r \in real :
                       data[q].item.missing_line_number # LineOf(data[r].item)
                /\ \A q1, q2 \in made :
                       q1 # q2 => data[q1].item.missing_line_number
                                      # data[q2].item.missing_line_number

----------------------------------------------------------------------------
(* SpecCore: the two core calls on one record list.  xml is the MXLIFF    *)
(* text, recs the tables of the document, data the record list, out the   *)
(* result of the last call and pc the name of that call                   *)

\* a text of two trans-units with the keys K1 and K2
TwoUnitText ==
    Build(<<[start |-> TRUE, gkey |-> <<>>, id |-> <<"1">>, own |-> K1],
            [start |-> TRUE, gkey |-> <<>>, id |-> <<"2">>, own |-> K2]>>,
          "plain", 0, FALSE)

CoreTexts == {<<>>, ReferenceText, TwoUnitText}

\* no record, one record, and a record after the record of "abcd efghi"
CoreData ==
    {<<>>}
    \cup {<<HeaderEntry, MatchRecord(1, s)>> : s \in RecordSources}
    \cup {<<HeaderEntry, MatchRecord(1, Abcd_Efghi), MatchRecord(2, s)>> : s \in RecordSources}

\* no table, and the tables of one row
CoreTables ==
    {<<>>} \cup {<<MatchTable(shape, <<cells>>)>> : shape \in TableShapes, cells \in MatchRowCells}

InitCore ==
    /\ xml \in CoreTexts
    /\ data \in CoreData
    /\ recs \in CoreTables
    /\ out = NoOutcome
    /\ intLimit = FALSE
    /\ pc = "input"

\* the caller edits the translation of one record between two calls
SetTarget(i, new_text) ==
    /\ i \in 1..Len(data)
    /\ data[i].has_item
    /\ data[i].item.target_text # new_text
    /\ data' = [data EXCEPT ![i].item.target_text = new_text]
    /\ out' = NoOutcome
    /\ pc' = "input"
    /\ UNCHANGED <<xml, recs, intLimit>>

\* XMLParser.update_xml_content(self.original_xml_content, self.processed_data)
UpdateXmlContentCall(order) ==
    /\ out' = update_xml_content(xml, data, order)
    /\ pc' = "update_xml_content"
    /\ UNCHANGED <<xml, data, recs, intLimit>>

\* the records with the source text of each item replaced by its cleaned text
CleanedSources(entries) ==
    [i \in 1..Len(entries) |->
        IF entries[i].has_item
        THEN [entries[i] EXCEPT !.item.source_text = preprocess_text(@)]
        ELSE entries[i]]

\* a faulty variant: the matcher writes the cleaned source text back into
\* the records it reads
MatchContentCall_WritesBack ==
    /\ \E result \in {match_content_with_mxliff(recs, data)} :
           out' = [status  |-> IF data = <<>> \/ recs = <<>> THEN "no-op" ELSE "matched",
                   matches |-> result.matches,
                   updates |-> result.updates]
    /\ pc' = "match_content_with_mxliff"
    /\ data' = CleanedSources(data)
    /\ UNCHANGED <<xml, recs, intLimit>>

\* self.document_parser.match_content_with_mxliff(self.processed_data)
MatchContentCall ==
    /\ \E result \in {match_content_with_mxliff(recs, data)} :
           out' = [status  |-> IF data = <<>> \/ recs = <<>> THEN "no-op" ELSE "matched",
                   matches |-> result.matches,
                   updates |-> result.updates]
    /\ pc' = "match_content_with_mxliff"
    /\ UNCHANGED <<xml, data, recs, intLimit>>

NextCore ==
    \/ \E e \in Edits(data) : SetTarget(e[1], e[2])
    \/ \E order \in Orders(MissingKeys(xml, data)) : UpdateXmlContentCall(order)
    \/ MatchContentCall

SpecCore == InitCore /\ [][NextCore]_vars

\* the fields of the item of an entry that the calls read
ReadFields(entry) ==
    <<entry.item.key, entry.item.target_text, entry.item.original_target_text,
      entry.item.note_text, entry.item.source_text>>

\* C30: the core calls are free of side effects on their inputs:
\* update_xml_content and match_content_with_mxliff leave the record list and
\* every field of every record (key, target_text, original_target_text,
\* note_text, source_text) unchanged, whether they return normally, return the
\* no-op result, or raise ValueError.
C30_CallsLeaveRecordsUnchanged ==
    [][pc' \in {"update_xml_content", "match_content_with_mxliff"} =>
          /\ Len(data') = Len(data)
          /\ \A i \in 1..Len(data) :
                 /\ data'[i].is_header = data[i].is_header
                 /\ data'[i].has_item = data[i].has_item
                 /\ ReadFields(data'[i]) = ReadFields(data[i])]_vars

\* the matcher has returned an update for a record whose source text it had
\* to clean, after the caller has edited a translation
C30_Witness ==
    /\ pc = "match_content_with_mxliff"
    /\ out.status = "matched"
    /\ out.matches > 0
    /\ \E i \in 1..Len(data) :
           /\ data[i].has_item
           /\ preprocess_text(data[i].item.source_text) # data[i].item.source_text
    /\ \E i \in 1..Len(data) :
           data[i].has_item /\ data[i].item.target_text # data[i].item.original_target_text

====
